---------------------------- MODULE Spec2Model ----------------------------
(***************************************************************************)
(* A model of the agent prototypes of AI_agent_explained: the sliding      *)
(* window Memory, the unified backend client and the four control loops    *)
(* (module-0 agent, agent_with_tools, AdvancedAgent.run, ReActAgent.run).  *)
(*                                                                         *)
(* A Python string is a sequence of symbols.  A symbol is one character,   *)
(* or a literal of the source (a prompt, a marker such as "TOOL_CALL:")    *)
(* kept in one piece.  Text parsing works on these sequences.              *)
(***************************************************************************)
EXTENDS Integers, Sequences, FiniteSets, TLC

VARIABLES
    prog,            \* the program under run
    backend,         \* config.LLM_BACKEND
    max_iterations,  \* the iteration cap of run / agent / agent_with_tools
    window_size,     \* Memory.window_size
    messages,        \* the conversation: Memory.messages, or the loop's local list
    view,            \* the list get_messages / get_window returned to the caller,
                     \* held until the caller's next call
    pc,              \* position of the running call
    i,               \* iterations of the for loop started in the current run
    pending,         \* tool calls of the current completion not yet executed
    result,          \* the value returned by the last finished run
    stats,           \* AdvancedAgent.stats
    calls,           \* backend calls made by the current run
    execs,           \* tool executions made by the current run
    script,          \* the completions the backend returned in the current run
    sent,            \* the conversation handed to the last backend call
    outcome,         \* how the last run ended
    runs,            \* number of runs started
    config,          \* config.OPENAI_API_KEY and config.LLAMA_MODEL_PATH
    client,          \* the module's client, once constructed
    registry,        \* the tools dict of the registry (of self.tools)
    registered,      \* the functions handed to register, in order
    invoked,         \* the last call made on the registry
    response,        \* what the backend answered to the last client call
    completion       \* the ChatCompletion the client returned for it

vars == <<prog, backend, max_iterations, window_size, messages, view, pc, i,
          pending, result, stats, calls, execs, script, sent, outcome, runs,
          config, client, registry, registered, invoked, response, completion>>

\* what a run of a loop and a call on a Memory leave alone
Setup == <<config, client, registry, registered, invoked, response, completion>>

-----------------------------------------------------------------------------
(* Bounds of the model *)

MaxWindow == 3
MaxHist == 5

Min(a, b) == IF a < b THEN a ELSE b
Max(a, b) == IF a > b THEN a ELSE b

-----------------------------------------------------------------------------
(* Python values *)

\* s[start:] of a Python list: a negative start counts from the end, and the
\* start is clamped to the list.
PySliceFrom(s, start) ==
    LET lo == IF start < 0 THEN Max(Len(s) + start, 0) ELSE Min(start, Len(s))
    IN  SubSeq(s, lo + 1, Len(s))

\* None, where a string is expected
None == <<"None">>

\* an int, written with its digits
PyInt(digits) == <<"int", digits>>

\* x is a str
IsStr(x) == x # None /\ (x = <<>> \/ x[1] # "int")

\* str(x) for a str, an int or None
str(x) ==
    IF x = None THEN <<"N", "o", "n", "e">>
    ELSE IF IsStr(x) THEN x ELSE <<x[2]>>

\* the dict {"role": role, "content": content} updated with the keyword arguments
Message(role, content, kwargs) == [role |-> role, content |-> content, extra |-> kwargs]

-----------------------------------------------------------------------------
(* Text: the regular expressions of the source, on sequences of symbols *)

\* \w : the word symbols used in the texts of the model
WordChars == {"calculate", "nonexistent", "fails", "expression", "f", "g", "x", "y", "1", "2", "_",
              "I", "call", "ok", "note"}
\* \s
SpaceChars == {" ", "\n"}

IsWord(c) == c \in WordChars
IsSpace(c) == c \in SpaceChars

\* the first index >= p of text that holds no symbol of class (Len(text) + 1 if none)
RECURSIVE RunEnd(_, _, _)
RunEnd(text, p, class) ==
    IF p > Len(text) \/ text[p] \notin class THEN p ELSE RunEnd(text, p + 1, class)

\* the first index >= p of text that holds symbol c, 0 if there is none
RECURSIVE IndexOf(_, _, _)
IndexOf(text, c, p) ==
    IF p > Len(text) THEN 0
    ELSE IF text[p] = c THEN p ELSE IndexOf(text, c, p + 1)

\* str.strip()
RECURSIVE lstrip(_)
lstrip(text) ==
    IF text # <<>> /\ IsSpace(Head(text)) THEN lstrip(Tail(text)) ELSE text

RECURSIVE rstrip(_)
rstrip(text) ==
    IF text # <<>> /\ IsSpace(text[Len(text)])
    THEN rstrip(SubSeq(text, 1, Len(text) - 1)) ELSE text

strip(text) == rstrip(lstrip(text))

\* One match of  prefix\s*(\w+)\((.*?)\)  (re.DOTALL) that starts at index p.
\* \s* and \w+ are greedy and end where their class ends; .*? is lazy and ends
\* at the first ")" after the "(".
MatchCall(text, prefix, p) ==
    LET b == RunEnd(text, p + 1, SpaceChars)
        c == RunEnd(text, b, WordChars)
        d == IF c <= Len(text) THEN IndexOf(text, ")", c + 1) ELSE 0
        ok == /\ p <= Len(text)
              /\ text[p] = prefix
              /\ c > b
              /\ c <= Len(text)
              /\ text[c] = "("
              /\ d # 0
    IN  [ok |-> ok,
         name |-> IF ok THEN SubSeq(text, b, c - 1) ELSE <<>>,
         args_str |-> IF ok THEN SubSeq(text, c + 1, d - 1) ELSE <<>>,
         start |-> p,
         end |-> IF ok THEN d ELSE 0]

\* re.finditer of the pattern from index p on: the matches, left to right,
\* none overlapping another
RECURSIVE FindCalls(_, _, _)
FindCalls(text, prefix, p) ==
    IF p > Len(text) THEN <<>>
    ELSE LET m == MatchCall(text, prefix, p)
         IN  IF m.ok THEN <<m>> \o FindCalls(text, prefix, m.end + 1)
             ELSE FindCalls(text, prefix, p + 1)

\* re.finditer(r'(\w+)="([^"]*)"', args_str): the (key, value) pairs in order
RECURSIVE FindArgs(_, _)
FindArgs(text, p) ==
    IF p > Len(text) THEN <<>>
    ELSE LET e == RunEnd(text, p, WordChars)
             f == IF e + 1 <= Len(text) THEN IndexOf(text, "\"", e + 2) ELSE 0
             ok == /\ e > p
                   /\ e + 1 <= Len(text)
                   /\ text[e] = "="
                   /\ text[e + 1] = "\""
                   /\ f # 0
         IN  IF ok
             THEN <<[key |-> SubSeq(text, p, e - 1), value |-> SubSeq(text, e + 2, f - 1)]>>
                  \o FindArgs(text, f + 1)
             ELSE FindArgs(text, p + 1)

\* args = {}; args[key] = value for each pair: a later pair overwrites an earlier
\* one with the same key
ParseArgs(args_str) ==
    LET pairs == FindArgs(args_str, 1)
        keys == {pairs[j].key : j \in 1..Len(pairs)}
        last(k) == CHOOSE j \in 1..Len(pairs) :
                      /\ pairs[j].key = k
                      /\ \A h \in 1..Len(pairs) : pairs[h].key = k => h <= j
    IN  [k \in keys |-> pairs[last(k)].value]

\* json.dumps of a dict of strings: the text of a JSON object
json_dumps(args) == [json |-> args]

\* a text that is no JSON document, such as an object cut short
InvalidJson == [invalid |-> <<"{", "\"", "expression">>]

\* json.loads: the value of a JSON text; JSONDecodeError for any other text
json_loads(text) ==
    IF "json" \in DOMAIN text THEN [raised |-> FALSE, value |-> text.json]
    ELSE [raised |-> TRUE, value |-> <<"Unterminated string starting at: line 1 column 2 (char 1)">>]

-----------------------------------------------------------------------------
(* The unified client: llm_client.py *)

\* ChatCompletion(content, tool_calls)
ChatCompletion(content, tool_calls) == [content |-> content, tool_calls |-> tool_calls]

\* one entry of ChatCompletion.tool_calls
ToolCall(id, name, arguments) == [id |-> id, name |-> name, arguments |-> arguments]

\* a content handed on as the API gives it
OrEmpty_keep(x) == x

\* Python's  x or ""  for a string or None
OrEmpty(x) == IF x = None \/ x = <<>> THEN <<>> ELSE x

\* OpenAIClient.chat_completions_create, after the API answered with message:
\* the native tool calls are copied, the content is  message.content or ""
OpenAICompletion(message) ==
    ChatCompletion(OrEmpty(message.content),
                   [j \in 1..Len(message.tool_calls) |->
                       ToolCall(message.tool_calls[j].id,
                                message.tool_calls[j].name,
                                message.tool_calls[j].arguments)])

\* LlamaCppClient._format_tools_for_prompt: one line per descriptor, then the
\* calling convention
\* ", ".join(f"{k}: {v.get('type', 'string')}" for k, v in params.items())
RECURSIVE ParamStr(_)
ParamStr(properties) ==
    IF properties = <<>> THEN <<>>
    ELSE Head(properties).name \o <<": ", Head(properties).type>>
         \o (IF Len(properties) > 1 THEN <<", ">> ELSE <<>>)
         \o ParamStr(Tail(properties))

RECURSIVE ToolLines(_)
ToolLines(tools) ==
    IF tools = <<>> THEN <<>>
    ELSE <<"\n", "- ">> \o Head(tools).name \o <<"(">> \o ParamStr(Head(tools).properties)
         \o <<"): ">> \o Head(tools).description \o ToolLines(Tail(tools))

_format_tools_for_prompt(tools) ==
    IF tools = <<>> THEN <<>>
    ELSE <<"You have access to the following tools:">> \o ToolLines(tools)
         \o <<"\n", "\nTo use a tool, respond with: TOOL_CALL: tool_name(arg1=\"value1\", arg2=\"value2\")">>

\* LlamaCppClient._extract_tool_calls
_extract_tool_calls(text) ==
    LET matches == FindCalls(text, "TOOL_CALL:", 1)
    IN  [j \in 1..Len(matches) |->
            ToolCall(<<"call_", ToString(j - 1)>>,
                     matches[j].name,
                     json_dumps(ParseArgs(matches[j].args_str)))]

\* the number of replacements re.sub(r"TOOL_CALL:.*?\)", "", content) makes
\* from index p on
RECURSIVE RemovedSegments(_, _)
RemovedSegments(text, p) ==
    IF p > Len(text) THEN 0
    ELSE LET d == IF text[p] = "TOOL_CALL:" THEN IndexOf(text, ")", p + 1) ELSE 0
         IN  IF d # 0 THEN 1 + RemovedSegments(text, d + 1)
             ELSE RemovedSegments(text, p + 1)

\* re.sub(r"TOOL_CALL:.*?\)", "", content, flags=re.DOTALL)
RECURSIVE RemoveToolCallText(_, _)
RemoveToolCallText(text, p) ==
    IF p > Len(text) THEN <<>>
    ELSE LET d == IF text[p] = "TOOL_CALL:" THEN IndexOf(text, ")", p + 1) ELSE 0
         IN  IF d # 0 THEN RemoveToolCallText(text, d + 1)
             ELSE <<text[p]>> \o RemoveToolCallText(text, p + 1)

\* the index of the first system message of msgs, 0 if there is none
RECURSIVE FirstSystem(_, _)
FirstSystem(msgs, p) ==
    IF p > Len(msgs) THEN 0
    ELSE IF msgs[p].role = "system" THEN p ELSE FirstSystem(msgs, p + 1)

\* LlamaCppClient.chat_completions_create, before the model is called: with
\* tools, the tool prompt is appended to the content of the first system
\* message of the caller's list, or a system message is inserted at its front
LlamaInjectTools(msgs, tools) ==
    IF tools = <<>> THEN msgs
    ELSE LET tool_prompt == _format_tools_for_prompt(tools)
             system_msg_idx == FirstSystem(msgs, 1)
         IN  IF system_msg_idx # 0
             THEN [msgs EXCEPT ![system_msg_idx].content = @ \o <<"\n\n">> \o tool_prompt]
             ELSE <<Message("system", tool_prompt, <<>>)>> \o msgs

\* a completion that reads the calling convention whether or not tools were passed
LlamaCompletion_always(content, tools) ==
    LET tool_calls == _extract_tool_calls(content)
    IN  ChatCompletion(IF tool_calls # <<>>
                       THEN strip(RemoveToolCallText(content, 1))
                       ELSE content,
                       tool_calls)

\* LlamaCppClient.chat_completions_create, after the model answered with the
\* text content
LlamaCompletion(content, tools) ==
    LET tool_calls == IF tools # <<>> THEN _extract_tool_calls(content) ELSE <<>>
    IN  ChatCompletion(IF tool_calls # <<>>
                       THEN strip(RemoveToolCallText(content, 1))
                       ELSE content,
                       tool_calls)

\* UnifiedClient.ChatCompletions.create: the caller's list after the call
ClientMessages(be, msgs, tools) ==
    IF be = "llamacpp" THEN LlamaInjectTools(msgs, tools) ELSE msgs

\* UnifiedClient.ChatCompletions.create: the completion returned for the
\* backend's answer
ClientCompletion(be, answer, tools) ==
    IF be = "llamacpp" THEN LlamaCompletion(answer, tools) ELSE OpenAICompletion(answer)

-----------------------------------------------------------------------------
(* Construction of the client: config.py, get_llm_client, UnifiedClient *)

DefaultModelPath == "models/llama-2-7b-chat.Q4_K_M.gguf"

\* the files on disk
Files == {DefaultModelPath}

\* the class Config, without LLM_BACKEND
Config(OPENAI_API_KEY, LLAMA_MODEL_PATH) ==
    [OPENAI_API_KEY |-> OPENAI_API_KEY, LLAMA_MODEL_PATH |-> LLAMA_MODEL_PATH]

\* OpenAIClient.__init__: openai.OpenAI(api_key=api_key) keeps the key, no
\* request is sent
OpenAIClient(api_key) == [raised |-> FALSE, value |-> "OpenAIClient"]

\* LlamaCppClient.__init__: Llama(model_path=...) loads the file, and raises
\* when there is no file at model_path
LlamaCppClient(model_path) ==
    IF model_path \in Files
    THEN [raised |-> FALSE, value |-> "LlamaCppClient"]
    ELSE [raised |-> TRUE, value |-> <<"Model path does not exist: ", model_path>>]

\* a factory that hands the key on unchecked
get_llm_client_unchecked(LLM_BACKEND, cfg) ==
    IF LLM_BACKEND = "llamacpp" THEN LlamaCppClient(cfg.LLAMA_MODEL_PATH)
    ELSE OpenAIClient(cfg.OPENAI_API_KEY)

\* get_llm_client: the client, or the exception
get_llm_client(LLM_BACKEND, cfg) ==
    IF LLM_BACKEND = "openai"
    THEN IF cfg.OPENAI_API_KEY = ""
         THEN [raised |-> TRUE, value |-> <<"OPENAI_API_KEY not set in configuration">>]
         ELSE OpenAIClient(cfg.OPENAI_API_KEY)
    ELSE IF LLM_BACKEND = "llamacpp"
    THEN LlamaCppClient(cfg.LLAMA_MODEL_PATH)
    ELSE [raised |-> TRUE, value |-> <<"Unknown LLM backend: ", LLM_BACKEND>>]

\* UnifiedClient.__init__
UnifiedClient(LLM_BACKEND, cfg) == get_llm_client(LLM_BACKEND, cfg)

\* the configurations of the model: (LLM_BACKEND, config)
Configs ==
    { <<"openai", Config("sk-key", DefaultModelPath)>>,
      <<"openai", Config("", DefaultModelPath)>>,
      <<"llamacpp", Config("", DefaultModelPath)>>,
      <<"llamacpp", Config("sk-key", "models/missing.gguf")>>,
      <<"ollama", Config("sk-key", DefaultModelPath)>> }

-----------------------------------------------------------------------------
(* The backends' answers *)

Quote == "\""

\* the text of a call  name(key="value")
CallText(name, key, value) == <<name, "(", key, "=", Quote>> \o value \o <<Quote, ")">>

\* texts a local model may answer with
LlamaTexts ==
    { <<"4">>,
      <<"TOOL_CALL:", " ">> \o CallText("calculate", "expression", <<"2+2">>),
      <<"I", " ", "call", " ", "TOOL_CALL:", " ">> \o CallText("f", "x", <<"1">>)
          \o <<"\n", "TOOL_CALL:">> \o CallText("g", "y", <<"2">>),
      <<"TOOL_CALL:", " ", "calculate", "(", "expression", "=", Quote, "2+2", Quote>> }

\* a tool call as the remote API returns it
NativeCall(id, name, args) == ToolCall(<<"call_", id>>, <<name>>, json_dumps(args))

CalcArgs == [k \in {<<"expression">>} |-> <<"2+2">>]
NoArgs == [k \in {} |-> <<>>]

\* messages the remote API may answer with
OpenAIMessages ==
    { [content |-> <<"4">>, tool_calls |-> <<>>],
      [content |-> None, tool_calls |-> <<>>],
      [content |-> None, tool_calls |-> <<NativeCall("a", "calculate", CalcArgs)>>],
      [content |-> <<"thinking">>,
       tool_calls |-> <<NativeCall("a", "nonexistent", NoArgs),
                        NativeCall("b", "calculate", CalcArgs)>>],
      [content |-> None,
       tool_calls |-> <<ToolCall(<<"call_", "c">>, <<"calculate">>, InvalidJson)>>] }

Answers(be) == IF be = "llamacpp" THEN LlamaTexts ELSE OpenAIMessages

-----------------------------------------------------------------------------
(* The tool registry: module_1_tool_agent_llamacpp.py *)

\* a function object: its __name__ and the module that defines it
Func(name, module) == [name |-> name, module |-> module]

\* self.tools[func.__name__] = func, on a dict kept as the list of its values in
\* insertion order, without a check that the name is free
register_unchecked(tools, func) == Append(tools, func)

\* ToolRegistry.register: self.tools[func.__name__] = func. Assigning to a key
\* the dict holds replaces the value and keeps the key's place.
register(tools, func) ==
    IF \E j \in 1..Len(tools) : tools[j].name = func.name
    THEN [j \in 1..Len(tools) |-> IF tools[j].name = func.name THEN func ELSE tools[j]]
    ELSE Append(tools, func)

\* registry.tools after the module's @registry.register lines
RegistryTools ==
    register(register(register(<<>>, Func(<<"get_weather">>, "module_1")),
                      Func(<<"get_news">>, "module_1")),
             Func(<<"calculate">>, "module_1"))

\* the keys of the dict
Registered(tools) == {tools[j].name : j \in 1..Len(tools)}

\* self.tools[tool_name]
Lookup(tools, tool_name) ==
    tools[CHOOSE j \in 1..Len(tools) : tools[j].name = tool_name]

\* eval(expression): the value, or the exception
Eval(expression) ==
    IF expression = <<"2+2">> THEN [raised |-> FALSE, value |-> PyInt("4")]
    ELSE [raised |-> TRUE, value |-> <<"invalid syntax">>]

\* a declared parameter, with or without a default value
Param(name, has_default) == [name |-> name, has_default |-> has_default]

\* inspect.signature(func).parameters, in the order of declaration
Signature(func) ==
    CASE func.name = <<"calculate">> /\ func.module = "caller" ->
            <<Param(<<"expression">>, FALSE), Param(<<"precision">>, TRUE)>>
      [] func.name = <<"calculate">> -> <<Param(<<"expression">>, FALSE)>>
      [] func.name = <<"get_weather">> -> <<Param(<<"city">>, FALSE)>>
      [] func.name = <<"get_news">> -> <<Param(<<"topic">>, FALSE)>>
      [] func.name = <<"search">> -> <<Param(<<"query">>, FALSE)>>
      [] func.name = <<"save_note">> -> <<Param(<<"content">>, FALSE)>>
      [] func.name = <<"log">> -> <<Param(<<"level">>, TRUE)>>
      [] OTHER -> <<>>

\* inspect.getdoc(func): the docstring, empty when there is none
Doc(func) ==
    CASE func.module = "caller" -> <<>>
      [] func.name = <<"calculate">> /\ func.module = "module_1" ->
            <<"Evaluates a mathematical expression and returns the result.">>
      [] func.name = <<"calculate">> /\ func.module = "module_3" ->
            <<"Evaluates a mathematical expression.">>
      [] func.name = <<"calculate">> -> <<"Evaluate a mathematical expression.">>
      [] func.name = <<"get_weather">> -> <<"Gets the current weather for a given city.">>
      [] func.name = <<"get_news">> -> <<"Gets the latest news headlines for a given topic.">>
      [] func.name = <<"search">> /\ func.module = "module_3" ->
            <<"Searches the internet for information about a query.">>
      [] func.name = <<"search">> -> <<"Search the internet for information.">>
      [] func.name = <<"get_current_year">> -> <<"Returns the current year.">>
      [] func.name = <<"get_time">> -> <<"Get the current time.">>
      [] OTHER -> <<"Save a note to memory (simulated).">>

\* f(**arguments) for a function f with the parameters sig: a keyword that is
\* no parameter, or a parameter without default that is not given, raises
\* TypeError
BadKeywords(arguments, sig) ==
    LET names == {sig[j].name : j \in 1..Len(sig)}
        needed == {sig[j].name : j \in {h \in 1..Len(sig) : ~sig[h].has_default}}
    IN  IF needed \subseteq DOMAIN arguments /\ DOMAIN arguments \subseteq names THEN <<>>
        ELSE <<"got an unexpected keyword argument, or a required argument is missing">>

\* calculate(expression): eval's exceptions are caught inside the tool, and
\* reported behind the module's prefix
calculate(prefix, expression) ==
    LET r == Eval(expression)
    IN  IF r.raised THEN prefix \o r.value ELSE str(r.value)

\* func(**arguments) for the functions of the model: the value returned, or the
\* message of the exception raised
Apply(func, arguments) ==
    LET returns(v) == [raised |-> FALSE, value |-> v]
        raises(msg) == [raised |-> TRUE, value |-> msg]
        one(key) == IF key \in DOMAIN arguments THEN arguments[key] ELSE <<>>
    IN  IF BadKeywords(arguments, Signature(func)) # <<>>
        THEN raises(BadKeywords(arguments, Signature(func)))
        ELSE
        CASE func.module = "caller" /\ func.name = <<"fails">> -> raises(<<"boom">>)
          [] func.module = "caller" /\ func.name = <<"count">> -> returns(PyInt("3"))
          [] func.module = "caller" /\ func.name = <<"log">> -> returns(None)
          [] func.module = "caller" /\ func.name = <<"calculate">> -> returns(<<"42">>)
          [] func.name = <<"calculate">> /\ func.module = "module_1" ->
               returns(calculate(<<"Error evaluating expression: ">>, one(<<"expression">>)))
          [] func.name = <<"calculate">> /\ func.module = "module_3" ->
               returns(calculate(<<"Error: ">>, one(<<"expression">>)))
          [] func.name = <<"calculate">> /\ func.module = "advanced_example" ->
               returns(calculate(<<"Calculation error: ">>, one(<<"expression">>)))
          [] func.name = <<"get_weather">> ->
               returns(<<"Sorry, I don't have weather data for ">> \o one(<<"city">>)
                           \o <<". Try San Francisco, New York, or London.">>)
          [] func.name = <<"get_news">> ->
               returns(<<"Here are some general headlines about ">> \o one(<<"topic">>)
                           \o <<": 1) Breaking news story. 2) Important development. 3) Ongoing situation.">>)
          [] func.name = <<"search">> ->
               returns(<<"No specific information found for '">> \o one(<<"query">>)
                           \o <<"'.">>)
          [] func.name = <<"get_current_year">> -> returns(<<"2024">>)
          [] func.name = <<"get_time">> -> returns(<<"2026-01-01 00:00:00">>)
          [] func.name = <<"save_note">> ->
               returns(<<"Note saved: '">> \o one(<<"content">>) \o <<"'">>)

\* call_tool returning the tool's value as it is
call_tool_raw(tools, tool_name, arguments) ==
    IF tool_name \notin Registered(tools)
    THEN <<"Error: Tool '">> \o tool_name \o <<"' not found.">>
    ELSE Apply(Lookup(tools, tool_name), arguments).value

\* ToolRegistry.call_tool
call_tool(tools, tool_name, arguments) ==
    IF tool_name \notin Registered(tools)
    THEN <<"Error: Tool '">> \o tool_name \o <<"' not found.">>
    ELSE LET r == Apply(Lookup(tools, tool_name), arguments)
         IN  IF r.raised
             THEN <<"Error calling tool ">> \o tool_name \o <<": ">> \o r.value
             ELSE str(r.value)

\* a tool descriptor: the name, the description, the properties of the
\* parameters object in order, and its required list
Descriptor(name, description, properties, required) ==
    [name |-> name, description |-> description,
     properties |-> properties, required |-> required]

\* parameters["properties"] of a function: every parameter is a "string"
Properties(func) ==
    [j \in 1..Len(Signature(func)) |-> [name |-> Signature(func)[j].name, type |-> "string"]]

\* a required list that names every parameter
Required_all(func) == [j \in 1..Len(Signature(func)) |-> Signature(func)[j].name]

\* parameters["required"] of a function: the names of the parameters whose
\* default is inspect.Parameter.empty, in order
Required(func) ==
    LET sig == SelectSeq(Signature(func), LAMBDA prm : ~prm.has_default)
    IN  [j \in 1..Len(sig) |-> sig[j].name]

\* ToolRegistry.get_tool_schema: one descriptor per entry of the dict, in the
\* dict's order, under the entry's key
get_tool_schema(tools) ==
    [j \in 1..Len(tools) |->
        Descriptor(tools[j].name,
                   IF Doc(tools[j]) # <<>> THEN Doc(tools[j])
                   ELSE <<"No description provided.">>,
                   Properties(tools[j]), Required(tools[j]))]

\* ToolRegistry.get_openai_schema
get_openai_schema(tools) ==
    [j \in 1..Len(tools) |->
        Descriptor(tools[j].name,
                   IF Doc(tools[j]) # <<>> THEN Doc(tools[j]) ELSE <<"No description">>,
                   Properties(tools[j]), Required(tools[j]))]

-----------------------------------------------------------------------------
(* Memory: module_2_memory_agent_llamacpp.py, module_2_memory_agent.py *)

SystemPrompt == <<"You are a helpful assistant.">>

\* Memory.__init__
MemoryInit(N, system_prompt) ==
    IF system_prompt # <<>> THEN <<Message("system", system_prompt, <<>>)>> ELSE <<>>

\* Memory.add_message
add_message(ms, role, content) == Append(ms, Message(role, content, <<>>))

\* get_messages keeping the oldest N messages instead of the newest
get_messages_oldest(ms, N) ==
    IF ms = <<>> THEN <<>>
    ELSE IF ms[1].role = "system"
         THEN <<ms[1]>> \o SubSeq(PySliceFrom(ms, 1), 1, Min(N, Len(ms) - 1))
         ELSE SubSeq(ms, 1, Min(N, Len(ms)))

\* Memory.get_messages
get_messages(ms, N) ==
    IF ms = <<>> THEN <<>>
    ELSE IF ms[1].role = "system"
         THEN <<ms[1]>> \o PySliceFrom(PySliceFrom(ms, 1), -N)
         ELSE PySliceFrom(ms, -N)

\* a materialization that hands out self.messages itself when the window
\* covers the whole history
ReturnsStoredList_whole(ms, N) == get_messages(ms, N) = ms

\* whether the list returned by get_messages / get_window is the list object
\* self.messages: the literal [], the concatenation system_msg +
\* recent_messages and the slice self.messages[-n:] each build a new list
ReturnsStoredList(ms, N) == FALSE

\* the caller's changes of a list it holds: append, insert(0, m), pop(0), pop()
ListChanges(list) ==
    LET m == Message("user", <<"mine">>, <<>>)
    IN  {Append(list, m), <<m>> \o list}
        \cup (IF list = <<>> THEN {} ELSE {Tail(list), SubSeq(list, 1, Len(list) - 1)})

\* clear dropping the system prompt too
clear_all(ms) == <<>>

\* Memory.clear
clear(ms) ==
    IF ms # <<>> /\ ms[1].role = "system" THEN <<ms[1]>> ELSE <<>>

Roles == {"system", "user", "assistant"}
Contents == {<<"a">>, <<"b">>}

NoStats == [total_iterations |-> 0, tool_calls |-> 0]

\* no call on a registry and no call on the client has been made
NoUnit ==
    /\ registered = <<>>
    /\ invoked = <<>>
    /\ response = None
    /\ completion = None

MemIdle ==
    /\ UNCHANGED <<prog, backend, max_iterations, window_size, i, pending,
                   result, stats, calls, execs, script, sent, outcome, runs>>
    /\ UNCHANGED Setup

MemAddMessage ==
    /\ prog = "Memory"
    /\ Len(messages) < MaxHist
    /\ \E role \in Roles, content \in Contents :
          messages' = add_message(messages, role, content)
    /\ view' = <<>>
    /\ pc' = "idle"
    /\ MemIdle

MemGetMessages ==
    /\ prog = "Memory"
    /\ view' = get_messages(messages, window_size)
    /\ pc' = "viewed"
    /\ UNCHANGED messages
    /\ MemIdle

MemClear ==
    /\ prog = "Memory"
    /\ messages' = clear(messages)
    /\ view' = <<>>
    /\ pc' = "cleared"
    /\ MemIdle

InitMemory ==
    /\ prog = "Memory"
    /\ backend = "llamacpp"
    /\ max_iterations = 0
    /\ window_size \in 0..MaxWindow
    /\ \E system_prompt \in {<<>>, SystemPrompt} :
          messages = MemoryInit(window_size, system_prompt)
    /\ view = <<>>
    /\ pc = "idle"
    /\ i = 0
    /\ pending = <<>>
    /\ result = None
    /\ stats = NoStats
    /\ calls = 0
    /\ execs = 0
    /\ script = <<>>
    /\ sent = <<>>
    /\ outcome = "none"
    /\ runs = 0
    /\ config = Config("", DefaultModelPath)
    /\ client = "LlamaCppClient"
    /\ registry = <<>>
    /\ NoUnit

-----------------------------------------------------------------------------
(* The control loops *)

MaxIter == 2

UserTask == <<"compute 2+2">>

\* the task of the run-th call of a long-lived agent
Task(run) == IF run = 1 THEN UserTask ELSE <<"and squared?">>

\* a run is in progress
Running == pc \in {"loop", "tools"}

\* the for loop of a run is left to range(max_iterations)
LoopFrame == UNCHANGED <<prog, backend, window_size, view, runs>> /\ UNCHANGED Setup

\* a loop that takes one iteration too many
InRange_inclusive(k, n) == k <= n

\* for i in range(n): the loop takes another iteration after k of them
InRange(k, n) == k < n

\* a tool loop that stops after its first call
NextCalls_break(tool_calls) == <<>>

\* for tool_call in tool_calls: the calls left once the first is handled
NextCalls(tool_calls) == Tail(tool_calls)

\* a loop that catches the backend's exception and goes on to its next iteration
BackendRaises_retry(msgs) ==
    /\ pc' = "loop"
    /\ outcome' = "error"
    /\ calls' = calls + 1
    /\ messages' = msgs
    /\ UNCHANGED <<pending, result, script, execs>>

\* the backend call of an iteration raises: nothing in the loops catches it;
\* msgs is the caller's list as the client leaves it
BackendRaises(msgs) ==
    /\ pc' = "raised"
    /\ outcome' = "error"
    /\ calls' = calls + 1
    /\ messages' = msgs
    /\ UNCHANGED <<pending, result, script, execs>>

\* the module is imported: client = UnifiedClient(). An exception ends the
\* import, and the module's functions are never defined.
Import ==
    /\ prog \in {"agent", "agent_with_tools", "ReActAgent"}
    /\ pc = "import"
    /\ LET r == UnifiedClient(backend, config)
       IN  IF r.raised
           THEN /\ pc' = "import_failed"
                /\ outcome' = "config_error"
                /\ UNCHANGED client
           ELSE /\ pc' = "idle"
                /\ client' = r.value
                /\ UNCHANGED outcome
    /\ UNCHANGED <<prog, backend, max_iterations, window_size, messages, view, i,
                   pending, result, stats, calls, execs, script, sent, runs,
                   config, registry, registered, invoked, response, completion>>

\* an exception raised by the loop's own statements while it handles a tool
\* call: nothing in the loops catches it
LoopRaises ==
    /\ pc' = "raised"
    /\ outcome' = "tool_error"
    /\ UNCHANGED <<messages, pending, result, execs>>

-----------------------------------------------------------------------------
(* agent_with_tools: module_1_tool_agent_llamacpp.py *)

AwtSystemPrompt == <<"You are a helpful AI assistant with access to various tools.">>

AwtIncomplete == <<"Agent reached maximum iterations without completing the task.">>

\* an exhausted loop returning the text of the last completion
AwtExhausted_partial(last_content) == last_content

\* the value agent_with_tools returns when the for loop is exhausted
AwtExhausted(last_content) == AwtIncomplete

\* the message appended for a tool result
AwtToolMessage(tool_name, tool_result) ==
    Message("user", <<"Tool ">> \o tool_name \o <<" returned: ">> \o tool_result, <<>>)

\* lines 147-161: the conversation is seeded and the schema is read
AwtStart ==
    /\ prog = "agent_with_tools"
    /\ pc = "idle"
    /\ \E cap \in 0..MaxIter : max_iterations' = cap
    /\ messages' = <<Message("system", AwtSystemPrompt, <<>>),
                     Message("user", UserTask, <<>>)>>
    /\ pc' = "loop"
    /\ i' = 0
    /\ calls' = 0
    /\ execs' = 0
    /\ script' = <<>>
    /\ sent' = <<>>
    /\ pending' = <<>>
    /\ outcome' = "none"
    /\ runs' = runs + 1
    /\ UNCHANGED <<prog, backend, window_size, view, result, stats>>
    /\ UNCHANGED Setup

\* lines 164-186 and 206-210: one backend call, the assistant message, and the
\* return when the completion carries no tool call
AwtThink ==
    /\ prog = "agent_with_tools"
    /\ pc = "loop"
    /\ InRange(i, max_iterations)
    /\ i' = i + 1
    /\ sent' = messages
    /\ LET tools == get_tool_schema(registry)
       IN  \/ \E answer \in Answers(backend) :
                LET response_message == ClientCompletion(backend, answer, tools)
                IN  /\ calls' = calls + 1
                    /\ script' = Append(script, response_message)
                    /\ messages' = Append(ClientMessages(backend, messages, tools),
                                          Message("assistant",
                                                  OrEmpty(response_message.content), <<>>))
                    /\ IF Len(response_message.tool_calls) > 0
                       THEN /\ pending' = response_message.tool_calls
                            /\ pc' = "tools"
                            /\ UNCHANGED <<result, outcome>>
                       ELSE /\ pending' = <<>>
                            /\ pc' = "done"
                            /\ result' = response_message.content
                            /\ outcome' = "final"
                    /\ UNCHANGED execs
           \/ BackendRaises(ClientMessages(backend, messages, tools))
    /\ UNCHANGED <<max_iterations, stats>>
    /\ LoopFrame

\* lines 190-205: the next tool call of the completion is executed and its
\* result appended
AwtAct ==
    /\ prog = "agent_with_tools"
    /\ pc = "tools"
    /\ pending # <<>>
    /\ LET tool_call == Head(pending)
           tool_name == tool_call.name
           tool_args == json_loads(tool_call.arguments)
           tool_result == call_tool(registry, tool_name, tool_args.value)
       IN  IF tool_args.raised
           THEN LoopRaises
           ELSE /\ messages' = Append(messages, AwtToolMessage(tool_name, tool_result))
                /\ execs' = execs + 1
                /\ pending' = NextCalls(pending)
                /\ pc' = IF NextCalls(pending) = <<>> THEN "loop" ELSE "tools"
                /\ UNCHANGED <<result, outcome>>
    /\ UNCHANGED <<max_iterations, i, stats, calls, script, sent>>
    /\ LoopFrame

\* line 212: the for loop is exhausted
AwtExhaust ==
    /\ prog = "agent_with_tools"
    /\ pc = "loop"
    /\ ~InRange(i, max_iterations)
    /\ result' = AwtExhausted(IF script = <<>> THEN <<>> ELSE script[Len(script)].content)
    /\ pc' = "done"
    /\ outcome' = "exhausted"
    /\ UNCHANGED <<max_iterations, messages, i, pending, stats, calls, execs, script, sent>>
    /\ LoopFrame

-----------------------------------------------------------------------------
(* agent: module_0_agent_llamacpp.py *)

\* the opening fence of a python block and the closing fence, each with its newline
CodeOpen == "<fence>python\n"
CodeClose == "\n<fence>"

Agent0SystemPrompt == <<"You are a helpful AI assistant that can solve math problems.">>

Agent0Incomplete == <<"Agent reached maximum iterations without a final answer.">>

\* the value agent returns when the for loop is exhausted
Agent0Exhausted(last_content) == Agent0Incomplete

\* re.search of the fenced python block in response_text (re.DOTALL): the code of
\* the first block, as a one-element list; no element when nothing matches
code_match(response_text) ==
    LET p == IndexOf(response_text, CodeOpen, 1)
        q == IF p # 0 THEN IndexOf(response_text, CodeClose, p + 1) ELSE 0
    IN  IF q # 0 THEN <<SubSeq(response_text, p + 1, q - 1)>> ELSE <<>>

\* execute_python: str(eval(code)), or the exception's text
execute_python(code) ==
    LET r == Eval(code)
    IN  IF r.raised THEN r.value ELSE str(r.value)

\* texts a model may answer the module-0 prompt with
Agent0Texts ==
    { <<"The answer is 4">>,
      <<"Let me compute", CodeOpen, "2+2", CodeClose>>,
      <<CodeOpen, "2+2", CodeClose, "and", CodeOpen, "1/0", CodeClose>>,
      <<CodeOpen, "2+2">> }

\* the answers of a backend called without tools: a text of the local model,
\* a message of the remote API, whose content may be None
TextAnswers(be, texts) ==
    IF be = "llamacpp" THEN texts
    ELSE {[content |-> t, tool_calls |-> <<>>] : t \in texts \cup {None}}

\* lines 31-41
Agent0Start ==
    /\ prog = "agent"
    /\ pc = "idle"
    /\ \E cap \in 0..MaxIter : max_iterations' = cap
    /\ messages' = <<Message("system", Agent0SystemPrompt, <<>>),
                     Message("user", UserTask, <<>>)>>
    /\ pc' = "loop"
    /\ i' = 0
    /\ calls' = 0
    /\ execs' = 0
    /\ script' = <<>>
    /\ sent' = <<>>
    /\ pending' = <<>>
    /\ outcome' = "none"
    /\ runs' = runs + 1
    /\ UNCHANGED <<prog, backend, window_size, view, result, stats>>
    /\ UNCHANGED Setup

\* lines 44-66 and 78-82
Agent0Think ==
    /\ prog = "agent"
    /\ pc = "loop"
    /\ InRange(i, max_iterations)
    /\ i' = i + 1
    /\ sent' = messages
    /\ \/ \E answer \in TextAnswers(backend, Agent0Texts) :
             LET response_text == ClientCompletion(backend, answer, <<>>).content
                 found == code_match(response_text)
             IN  /\ calls' = calls + 1
                 /\ script' = Append(script, ChatCompletion(response_text, found))
                 /\ messages' = Append(ClientMessages(backend, messages, <<>>),
                                       Message("assistant", response_text, <<>>))
                 /\ IF found # <<>>
                    THEN /\ pending' = found
                         /\ pc' = "tools"
                         /\ UNCHANGED <<result, outcome>>
                    ELSE /\ pending' = <<>>
                         /\ pc' = "done"
                         /\ result' = response_text
                         /\ outcome' = "final"
                 /\ UNCHANGED execs
       \/ BackendRaises(ClientMessages(backend, messages, <<>>))
    /\ UNCHANGED <<max_iterations, stats>>
    /\ LoopFrame

\* lines 68-77
Agent0Act ==
    /\ prog = "agent"
    /\ pc = "tools"
    /\ pending # <<>>
    /\ LET code == Head(pending)
           observation == execute_python(code)
       IN  messages' = Append(messages,
                              Message("user", <<"Observation: ">> \o observation, <<>>))
    /\ execs' = execs + 1
    /\ pending' = <<>>
    /\ pc' = "loop"
    /\ UNCHANGED <<max_iterations, i, result, stats, calls, script, sent, outcome>>
    /\ LoopFrame

\* line 85
Agent0Exhaust ==
    /\ prog = "agent"
    /\ pc = "loop"
    /\ ~InRange(i, max_iterations)
    /\ result' = Agent0Exhausted(IF script = <<>> THEN <<>> ELSE script[Len(script)].content)
    /\ pc' = "done"
    /\ outcome' = "exhausted"
    /\ UNCHANGED <<max_iterations, messages, i, pending, stats, calls, execs, script, sent>>
    /\ LoopFrame

-----------------------------------------------------------------------------
(* ReActAgent: module_3_react_agent_llamacpp.py *)

FinalMarker == "Final Answer:"

ReactSystemPrompt == <<"You are a helpful assistant that solves problems step by step.">>

ReactLimit == <<"Failed to find an answer within the iteration limit.">>

\* the value run returns after the for loop, when the loop was left by its
\* break (a completion without action and without final answer)
ReactAfterBreak == ReactLimit

\* the value run returns after the for loop, when range(max_iterations) is
\* exhausted
ReactExhausted == ReactLimit

\* the tools dict handed to ReActAgent
ReactTools ==
    <<Func(<<"search">>, "module_3"), Func(<<"calculate">>, "module_3"),
      Func(<<"get_current_year">>, "module_3")>>

\* "Final Answer:" in agent_output, and
\* re.search(r"Final Answer:\s*(.+)", agent_output, re.DOTALL): group(1).strip()
\* as a one-element list; no element when the marker is absent or nothing,
\* not even white space, follows its first occurrence
final_answer(agent_output) ==
    LET p == IndexOf(agent_output, FinalMarker, 1)
    IN  IF p # 0 /\ p < Len(agent_output)
        THEN <<strip(SubSeq(agent_output, p + 1, Len(agent_output)))>>
        ELSE <<>>

\* a parse that takes the last action of the text
_parse_action_last(text) ==
    LET found == FindCalls(text, "Action:", 1)
    IN  IF found = <<>> THEN <<>>
        ELSE <<[name |-> found[Len(found)].name,
                args |-> ParseArgs(found[Len(found)].args_str)]>>

\* ReActAgent._parse_action: (tool_name, args) of the first action, as a
\* one-element list; no element for None
_parse_action(text) ==
    LET found == FindCalls(text, "Action:", 1)
    IN  IF found = <<>> THEN <<>>
        ELSE <<[name |-> found[1].name, args |-> ParseArgs(found[1].args_str)]>>

\* ReActAgent._execute_tool
_execute_tool(tools, tool_name, args) ==
    IF tool_name \notin Registered(tools)
    THEN <<"Error: Tool '">> \o tool_name \o <<"' not found. Available tools: [...]">>
    ELSE LET r == Apply(Lookup(tools, tool_name), args)
         IN  IF r.raised
             THEN <<"Error executing ">> \o tool_name \o <<": ">> \o r.value
             ELSE str(r.value)

\* texts a model may answer the ReAct prompt with
ReactTexts ==
    { <<"Thought: compute", "\n", "Action:", " ">>
          \o CallText("calculate", "expression", <<"2+2">>),
      <<"Thought: done", "\n", FinalMarker, " ", "4">>,
      <<"I do not know">>,
      <<"Action:", " ">> \o CallText("f", "x", <<"1">>) \o <<"\n", FinalMarker>>,
      <<"Action:", " ">> \o CallText("f", "x", <<"1">>) \o <<"\n", FinalMarker, " ", "4", "\n">>,
      <<"Action:", " ">> \o CallText("calculate", "expression", <<"2+2">>)
          \o <<"\n", "Action:", " ">> \o CallText("f", "x", <<"1">>) }

\* a loop that goes on to its next iteration when it finds no action
NoActionBreak_continue ==
    /\ pending' = <<>>
    /\ pc' = "loop"
    /\ outcome' = "violation"
    /\ UNCHANGED result

\* lines 159-166: no action and no final answer: the break, and the return
\* after the loop
NoActionBreak ==
    /\ pending' = <<>>
    /\ pc' = "done"
    /\ result' = ReactAfterBreak
    /\ outcome' = "violation"

\* lines 108-113
ReactStart ==
    /\ prog = "ReActAgent"
    /\ pc = "idle"
    /\ \E cap \in 0..MaxIter : max_iterations' = cap
    /\ messages' = <<Message("system", ReactSystemPrompt, <<>>),
                     Message("user", UserTask, <<>>)>>
    /\ pc' = "loop"
    /\ i' = 0
    /\ calls' = 0
    /\ execs' = 0
    /\ script' = <<>>
    /\ sent' = <<>>
    /\ pending' = <<>>
    /\ outcome' = "none"
    /\ runs' = runs + 1
    /\ UNCHANGED <<prog, backend, window_size, view, result, stats>>
    /\ UNCHANGED Setup

\* lines 118-147 and 159-166: one backend call, the assistant message, the
\* return on a final answer, and the break and return when there is no action
ReactThink ==
    /\ prog = "ReActAgent"
    /\ pc = "loop"
    /\ InRange(i, max_iterations)
    /\ i' = i + 1
    /\ sent' = messages
    /\ \/ \E answer \in TextAnswers(backend, ReactTexts) :
             LET agent_output == ClientCompletion(backend, answer, <<>>).content
                 final == final_answer(agent_output)
                 action == _parse_action(agent_output)
             IN  /\ calls' = calls + 1
                 /\ script' = Append(script, ChatCompletion(agent_output, action))
                 /\ messages' = Append(ClientMessages(backend, messages, <<>>),
                                       Message("assistant", agent_output, <<>>))
                 /\ IF final # <<>>
                    THEN /\ pending' = <<>>
                         /\ pc' = "done"
                         /\ result' = final[1]
                         /\ outcome' = "final"
                    ELSE IF action # <<>>
                    THEN /\ pending' = action
                         /\ pc' = "tools"
                         /\ UNCHANGED <<result, outcome>>
                    ELSE NoActionBreak
                 /\ UNCHANGED execs
       \/ BackendRaises(ClientMessages(backend, messages, <<>>))
    /\ UNCHANGED <<max_iterations, stats>>
    /\ LoopFrame

\* lines 148-158
ReactAct ==
    /\ prog = "ReActAgent"
    /\ pc = "tools"
    /\ pending # <<>>
    /\ LET action == Head(pending)
           observation == _execute_tool(registry, action.name, action.args)
       IN  messages' = Append(messages,
                              Message("user", <<"Observation: ">> \o observation, <<>>))
    /\ execs' = execs + 1
    /\ pending' = <<>>
    /\ pc' = "loop"
    /\ UNCHANGED <<max_iterations, i, result, stats, calls, script, sent, outcome>>
    /\ LoopFrame

\* lines 164-166
ReactExhaust ==
    /\ prog = "ReActAgent"
    /\ pc = "loop"
    /\ ~InRange(i, max_iterations)
    /\ result' = ReactExhausted
    /\ pc' = "done"
    /\ outcome' = "exhausted"
    /\ UNCHANGED <<max_iterations, messages, i, pending, stats, calls, execs, script, sent>>
    /\ LoopFrame

-----------------------------------------------------------------------------
(* AdvancedAgent: examples/advanced_example_full_agent.py *)

MaxRuns == 2

AdvSystemPrompt == <<"You are an advanced AI assistant.">>

AdvIncomplete == <<"Task incomplete: reached maximum iterations">>

\* the value run returns when the for loop is exhausted
AdvExhausted(last_content) == AdvIncomplete

\* registry.tools after the example's @registry.register lines
AdvTools ==
    register(register(register(register(<<>>, Func(<<"search">>, "advanced_example")),
                               Func(<<"calculate">>, "advanced_example")),
                      Func(<<"get_time">>, "advanced_example")),
             Func(<<"save_note">>, "advanced_example"))

\* Memory.add
add(ms, role, content, kwargs) == Append(ms, Message(role, content, kwargs))

\* a window of the oldest messages
get_window_oldest(ms, N) ==
    IF ms = <<>> THEN <<>>
    ELSE IF ms[1].role = "system"
         THEN <<ms[1]>> \o SubSeq(PySliceFrom(ms, 1), 1, Min(N, Len(ms) - 1))
         ELSE SubSeq(ms, 1, Min(N, Len(ms)))

\* Memory.get_window
get_window(ms, N) ==
    IF ms = <<>> THEN <<>>
    ELSE IF ms[1].role = "system"
         THEN <<ms[1]>> \o PySliceFrom(PySliceFrom(ms, 1), -N)
         ELSE PySliceFrom(ms, -N)

\* ToolRegistry.call
call(tools, name, args) ==
    IF name \notin Registered(tools)
    THEN <<"Error: Tool '">> \o name \o <<"' not found">>
    ELSE LET r == Apply(Lookup(tools, name), args)
         IN  IF r.raised THEN <<"Error: ">> \o r.value ELSE str(r.value)

\* a reset that keeps the history
reset_keeps(ms) == ms

\* AdvancedAgent.reset: the new Memory's messages
reset(ms) == IF ms # <<>> THEN <<ms[1]>> ELSE <<>>

\* AdvancedAgent.__init__
AdvInit(N) == add(<<>>, "system", AdvSystemPrompt, <<>>)

\* the agent is between two calls
AdvCallable == pc \in {"idle", "done", "raised", "reset"}

\* lines 125-128; runs are started while the history kept from earlier runs is
\* shorter than MaxHist
AdvStart ==
    /\ prog = "AdvancedAgent"
    /\ AdvCallable
    /\ runs < MaxRuns
    /\ Len(messages) < MaxHist
    /\ \E cap \in 0..MaxIter : max_iterations' = cap
    /\ messages' = add(messages, "user", Task(runs + 1), <<>>)
    /\ pc' = "loop"
    /\ i' = 0
    /\ calls' = 0
    /\ execs' = 0
    /\ script' = <<>>
    /\ sent' = <<>>
    /\ pending' = <<>>
    /\ outcome' = "none"
    /\ runs' = runs + 1
    /\ UNCHANGED <<prog, backend, window_size, view, result, stats>>
    /\ UNCHANGED Setup

\* lines 136-161 and 186-193
AdvThink ==
    /\ prog = "AdvancedAgent"
    /\ pc = "loop"
    /\ InRange(i, max_iterations)
    /\ i' = i + 1
    /\ sent' = get_window(messages, window_size)
    /\ \/ \E message \in OpenAIMessages :
             /\ calls' = calls + 1
             /\ stats' = [stats EXCEPT !.total_iterations = @ + 1]
             /\ script' = Append(script, message)
             /\ messages' = add(messages, "assistant", OrEmpty(message.content),
                                <<"tool_calls", message.tool_calls>>)
             /\ IF message.tool_calls # <<>>
                THEN /\ pending' = message.tool_calls
                     /\ pc' = "tools"
                     /\ UNCHANGED <<result, outcome>>
                ELSE /\ pending' = <<>>
                     /\ pc' = "done"
                     /\ result' = message.content
                     /\ outcome' = "final"
             /\ UNCHANGED execs
       \/ /\ BackendRaises(messages)
          /\ stats' = [stats EXCEPT !.total_iterations = @ + 1]
    /\ UNCHANGED max_iterations
    /\ LoopFrame

\* lines 165-185
AdvAct ==
    /\ prog = "AdvancedAgent"
    /\ pc = "tools"
    /\ pending # <<>>
    /\ LET tool_call == Head(pending)
           tool_name == tool_call.name
           tool_args == json_loads(tool_call.arguments)
           res == call(registry, tool_name, tool_args.value)
       IN  IF tool_args.raised
           THEN LoopRaises /\ UNCHANGED stats
           ELSE /\ messages' = add(messages, "tool", res,
                                   <<"tool_call_id", tool_call.id, "name", tool_name>>)
                /\ stats' = [stats EXCEPT !.tool_calls = @ + 1]
                /\ execs' = execs + 1
                /\ pending' = NextCalls(pending)
                /\ pc' = IF NextCalls(pending) = <<>> THEN "loop" ELSE "tools"
                /\ UNCHANGED <<result, outcome>>
    /\ UNCHANGED <<max_iterations, i, calls, script, sent>>
    /\ LoopFrame

\* lines 195-201
AdvExhaust ==
    /\ prog = "AdvancedAgent"
    /\ pc = "loop"
    /\ ~InRange(i, max_iterations)
    /\ result' = AdvExhausted(IF script = <<>> THEN <<>> ELSE script[Len(script)].content)
    /\ pc' = "done"
    /\ outcome' = "exhausted"
    /\ UNCHANGED <<max_iterations, messages, i, pending, stats, calls, execs, script, sent>>
    /\ LoopFrame

\* lines 210-222
AdvReset ==
    /\ prog = "AdvancedAgent"
    /\ AdvCallable
    /\ messages' = reset(messages)
    /\ stats' = NoStats
    /\ pc' = "reset"
    /\ UNCHANGED <<max_iterations, i, pending, result, calls, execs, script, sent, outcome>>
    /\ LoopFrame

-----------------------------------------------------------------------------

Progs == {"agent", "agent_with_tools", "ReActAgent", "AdvancedAgent"}

InitLoop ==
    /\ prog \in Progs
    /\ \E c \in IF prog = "AdvancedAgent" THEN {<<"openai", Config("sk-key", DefaultModelPath)>>}
                 ELSE Configs :
          /\ backend = c[1]
          /\ config = c[2]
    /\ client = IF prog = "AdvancedAgent" THEN "openai.OpenAI" ELSE "unset"
    /\ registry = CASE prog = "agent_with_tools" -> RegistryTools
                     [] prog = "ReActAgent" -> ReactTools
                     [] prog = "AdvancedAgent" -> AdvTools
                     [] OTHER -> <<>>
    /\ NoUnit
    /\ max_iterations = 0
    /\ window_size \in IF prog = "AdvancedAgent" THEN 0..MaxWindow ELSE {0}
    /\ messages = IF prog = "AdvancedAgent" THEN AdvInit(window_size) ELSE <<>>
    /\ view = <<>>
    /\ pc = IF prog = "AdvancedAgent" THEN "idle" ELSE "import"
    /\ i = 0
    /\ pending = <<>>
    /\ result = None
    /\ stats = NoStats
    /\ calls = 0
    /\ execs = 0
    /\ script = <<>>
    /\ sent = <<>>
    /\ outcome = "none"
    /\ runs = 0

NextLoop ==
    \/ Import
    \/ Agent0Start
    \/ Agent0Think
    \/ Agent0Act
    \/ Agent0Exhaust
    \/ AwtStart
    \/ AwtThink
    \/ AwtAct
    \/ AwtExhaust
    \/ ReactStart
    \/ ReactThink
    \/ ReactAct
    \/ ReactExhaust
    \/ AdvStart
    \/ AdvThink
    \/ AdvAct
    \/ AdvExhaust
    \/ AdvReset

SpecLoop == InitLoop /\ [][NextLoop]_vars

-----------------------------------------------------------------------------
(* The Memory of an AdvancedAgent, driven through its public methods *)

\* memory.add
AdvMemAdd ==
    /\ prog = "AdvancedAgent"
    /\ Len(messages) < MaxHist
    /\ \E role \in Roles, content \in Contents :
          messages' = add(messages, role, content, <<>>)
    /\ view' = <<>>
    /\ pc' = "idle"
    /\ MemIdle

\* memory.get_window
AdvMemGetWindow ==
    /\ prog = "AdvancedAgent"
    /\ view' = get_window(messages, window_size)
    /\ pc' = "viewed"
    /\ UNCHANGED messages
    /\ MemIdle

\* AdvancedAgent.reset
AdvMemReset ==
    /\ prog = "AdvancedAgent"
    /\ messages' = reset(messages)
    /\ view' = <<>>
    /\ pc' = "cleared"
    /\ UNCHANGED <<prog, backend, max_iterations, window_size, i, pending,
                   result, calls, execs, script, sent, outcome, runs>>
    /\ UNCHANGED Setup
    /\ stats' = NoStats

InitAdvMemory ==
    /\ prog = "AdvancedAgent"
    /\ backend = "openai"
    /\ max_iterations = 0
    /\ window_size \in 0..MaxWindow
    /\ messages = AdvInit(window_size)
    /\ view = <<>>
    /\ pc = "idle"
    /\ i = 0
    /\ pending = <<>>
    /\ result = None
    /\ stats = NoStats
    /\ calls = 0
    /\ execs = 0
    /\ script = <<>>
    /\ sent = <<>>
    /\ outcome = "none"
    /\ runs = 0
    /\ config = Config("sk-key", DefaultModelPath)
    /\ client = "openai.OpenAI"
    /\ registry = AdvTools
    /\ NoUnit

\* the caller changes the list it got from get_messages / get_window; the
\* stored history changes with it when both are one list object
MemChangeReturned ==
    /\ pc = "viewed"
    /\ \E changed \in ListChanges(view) :
          /\ view' = changed
          /\ messages' = IF ReturnsStoredList(messages, window_size) THEN changed
                         ELSE messages
    /\ pc' = "changed"
    /\ MemIdle

NextMemory ==
    \/ MemChangeReturned
    \/ MemAddMessage
    \/ MemGetMessages
    \/ MemClear
    \/ AdvMemAdd
    \/ AdvMemGetWindow
    \/ AdvMemReset

SpecMemory == (InitMemory \/ InitAdvMemory) /\ [][NextMemory]_vars

-----------------------------------------------------------------------------
(* StatefulAgent: module_2_memory_agent_llamacpp.py *)

MaxChats == 3

\* the agent is between two calls
ChatCallable == pc \in {"idle", "done", "raised", "cleared"}

ChatFrame ==
    /\ UNCHANGED <<prog, backend, max_iterations, window_size, view, i, pending,
                   stats, execs, script, runs>>
    /\ UNCHANGED Setup

\* StatefulAgent.chat: the user message is stored, the window is sent to the
\* backend, and the reply is stored and returned; an exception of the backend
\* call leaves chat at once. Calls are made while the history has room for a
\* turn, MaxChats of them at most.
StatefulChat ==
    /\ prog = "StatefulAgent"
    /\ ChatCallable
    /\ calls < MaxChats
    /\ Len(messages) + 2 <= MaxHist
    /\ \E user_message \in Contents :
          LET stored == add_message(messages, "user", user_message)
          IN  /\ sent' = get_messages(stored, window_size)
              /\ calls' = calls + 1
              /\ \/ \E answer \in Answers(backend) :
                       LET assistant_message == ClientCompletion(backend, answer, <<>>).content
                       IN  /\ messages' = add_message(stored, "assistant", assistant_message)
                           /\ result' = assistant_message
                           /\ pc' = "done"
                           /\ outcome' = "final"
                 \/ /\ messages' = stored
                    /\ pc' = "raised"
                    /\ outcome' = "error"
                    /\ UNCHANGED result
    /\ ChatFrame

\* StatefulAgent.reset
StatefulReset ==
    /\ prog = "StatefulAgent"
    /\ ChatCallable
    /\ messages' = clear(messages)
    /\ pc' = "cleared"
    /\ UNCHANGED <<result, calls, sent, outcome>>
    /\ ChatFrame

\* StatefulAgent(system_prompt, window_size) in a module whose client was built
InitChat ==
    /\ prog = "StatefulAgent"
    /\ \E c \in {<<"openai", Config("sk-key", DefaultModelPath)>>,
                 <<"llamacpp", Config("", DefaultModelPath)>>} :
          /\ backend = c[1]
          /\ config = c[2]
          /\ client = UnifiedClient(c[1], c[2]).value
    /\ registry = <<>>
    /\ NoUnit
    /\ max_iterations = 0
    /\ window_size \in 0..MaxWindow
    /\ \E system_prompt \in {<<>>, SystemPrompt} :
          messages = MemoryInit(window_size, system_prompt)
    /\ view = <<>>
    /\ pc = "idle"
    /\ i = 0
    /\ pending = <<>>
    /\ result = None
    /\ stats = NoStats
    /\ calls = 0
    /\ execs = 0
    /\ script = <<>>
    /\ sent = <<>>
    /\ outcome = "none"
    /\ runs = 0

NextChat ==
    \/ StatefulChat
    \/ StatefulReset

SpecChat == InitChat /\ [][NextChat]_vars

-----------------------------------------------------------------------------
(* The registries alone: register and the three ways to invoke a tool *)

MaxReg == 3

\* the variables of the loops and of Memory, which a registry does not touch
LoopVars == <<backend, max_iterations, window_size, messages, view, i, pending,
              stats, calls, execs, script, sent, outcome, runs, config, client>>

LoopVarsAtRest ==
    /\ max_iterations = 0
    /\ window_size = 0
    /\ messages = <<>>
    /\ view = <<>>
    /\ i = 0
    /\ pending = <<>>
    /\ stats = NoStats
    /\ calls = 0
    /\ execs = 0
    /\ script = <<>>
    /\ sent = <<>>
    /\ outcome = "none"
    /\ runs = 0

\* the owners of a tools dict
Registries == {"module_1.ToolRegistry", "advanced_example.ToolRegistry", "ReActAgent"}

\* the functions handed to register, or to ReActAgent in its tools dict
Funcs ==
    { Func(<<"calculate">>, "module_1"),
      Func(<<"calculate">>, "caller"),
      Func(<<"fails">>, "caller"),
      Func(<<"count">>, "caller"),
      Func(<<"log">>, "caller") }

\* the names and the arguments a tool call may carry
CallNames == {<<"calculate">>, <<"fails">>, <<"count">>, <<"log">>, <<"nonexistent">>}
CallArgs == {CalcArgs, NoArgs, [k \in {<<"expression">>} |-> <<"1/0">>]}

\* invoke on the registry at hand
Invoke(tools, name, args) ==
    CASE prog = "module_1.ToolRegistry" -> call_tool(tools, name, args)
      [] prog = "advanced_example.ToolRegistry" -> call(tools, name, args)
      [] OTHER -> _execute_tool(tools, name, args)

\* registry.register(func), @registry.register
RegRegister ==
    /\ prog \in {"module_1.ToolRegistry", "advanced_example.ToolRegistry"}
    /\ Len(registered) < MaxReg
    /\ \E func \in Funcs :
          /\ registry' = register(registry, func)
          /\ registered' = Append(registered, func)
    /\ pc' = "registered"
    /\ UNCHANGED <<prog, result, invoked, response, completion>>
    /\ UNCHANGED LoopVars

\* registry.call_tool(name, args), registry.call(name, args),
\* agent._execute_tool(name, args)
RegCall ==
    /\ prog \in Registries
    /\ \E name \in CallNames, args \in CallArgs :
          /\ invoked' = [name |-> name, args |-> args]
          /\ result' = Invoke(registry, name, args)
    /\ pc' = "called"
    /\ UNCHANGED <<prog, registry, registered, response, completion>>
    /\ UNCHANGED LoopVars

\* registry.get_tool_schema(), registry.get_openai_schema()
RegSchema ==
    /\ prog \in {"module_1.ToolRegistry", "advanced_example.ToolRegistry"}
    /\ result' = IF prog = "module_1.ToolRegistry" THEN get_tool_schema(registry)
                 ELSE get_openai_schema(registry)
    /\ pc' = "schema"
    /\ UNCHANGED <<prog, registry, registered, invoked, response, completion>>
    /\ UNCHANGED LoopVars

\* ToolRegistry(), and ReActAgent(tools) for a tools dict
InitRegistry ==
    /\ prog \in Registries
    /\ registered \in IF prog = "ReActAgent"
                      THEN {ReactTools,
                            <<Func(<<"fails">>, "caller"), Func(<<"count">>, "caller"),
                              Func(<<"log">>, "caller")>>}
                      ELSE {<<>>}
    /\ registry = registered
    /\ invoked = <<>>
    /\ result = None
    /\ pc = "idle"
    /\ response = None
    /\ completion = None
    /\ backend = "llamacpp"
    /\ config = Config("", DefaultModelPath)
    /\ client = "LlamaCppClient"
    /\ LoopVarsAtRest

NextRegistry == RegRegister \/ RegCall \/ RegSchema

SpecRegistry == InitRegistry /\ [][NextRegistry]_vars

-----------------------------------------------------------------------------
(* The client alone: one completion call, and one _parse_action *)

MaxSegs == 3
MaxScript == 3

\* the digits among the word symbols
Digits == {"1", "2"}

\* a piece of a model's text: its kind, its symbols, and for a tool call the
\* name and the arguments written in it
Segment(kind, text, name, args) ==
    [kind |-> kind, text |-> text, name |-> name, args |-> args]

\* an argument value with parentheses in it
ParenValue == <<"(", "1+2", ")", "*3">>

\* the pieces of the model's texts, for the calling convention with prefix:
\* plain text; calls in the convention ("call"); a call whose name starts with
\* a digit ("digit"); a call cut before its closing parenthesis ("open"); the
\* prefix in prose, no call after it ("bare")
Segments(prefix) ==
    { Segment("text", <<"ok">>, <<>>, NoArgs),
      Segment("text", <<" ">>, <<>>, NoArgs),
      Segment("text", <<"(", "note", ")">>, <<>>, NoArgs),
      Segment("call", <<prefix, " ">> \o CallText("f", "x", <<"1">>),
              <<"f">>, [k \in {<<"x">>} |-> <<"1">>]),
      Segment("call", <<prefix>> \o CallText("g", "y", <<"2">>),
              <<"g">>, [k \in {<<"y">>} |-> <<"2">>]),
      Segment("call", <<prefix, " ">> \o CallText("calculate", "expression", ParenValue),
              <<"calculate">>, [k \in {<<"expression">>} |-> ParenValue]),
      Segment("digit", <<prefix, " ", "2", "f", "(", ")">>, <<"2", "f">>, NoArgs),
      Segment("open", <<prefix, " ", "f", "(", "x", "=", Quote, "1", Quote>>,
              <<"f">>, [k \in {<<"x">>} |-> <<"1">>]),
      Segment("bare", <<prefix, " ", "ok", " ">>, <<>>, NoArgs) }

\* the sequences of at most n elements of S
SeqsUpTo(S, n) == UNION {[1..m -> S] : m \in 0..n}

\* the text made of the pieces
RECURSIVE Flatten(_)
Flatten(segs) == IF segs = <<>> THEN <<>> ELSE Head(segs).text \o Flatten(Tail(segs))

\* what a backend may answer: a text of the local model, in pieces, or a
\* message of the remote API
ClientAnswers(be) ==
    IF be = "llamacpp" THEN SeqsUpTo(Segments("TOOL_CALL:"), MaxSegs) ELSE OpenAIMessages

\* the conversations a caller passes: with and without a system message
Conversations ==
    { <<Message("user", UserTask, <<>>)>>,
      <<Message("system", SystemPrompt, <<>>), Message("user", UserTask, <<>>)>> }

\* client.chat.completions.create(messages=..., tools=...) or without tools:
\* sent is the list the caller passes, messages that list when the call returns
ClientCreate ==
    /\ prog = "UnifiedClient"
    /\ pc = "idle"
    /\ \E schema \in {<<>>, get_tool_schema(RegistryTools)}, a \in ClientAnswers(backend),
          conversation \in Conversations :
          /\ response' = [tools |-> schema, answer |-> a]
          /\ sent' = conversation
          /\ messages' = ClientMessages(backend, conversation, schema)
          /\ completion' = ClientCompletion(backend,
                                            IF backend = "llamacpp" THEN Flatten(a) ELSE a,
                                            schema)
    /\ pc' = "completed"
    /\ UNCHANGED <<prog, result, registry, registered, invoked>>
    /\ UNCHANGED <<backend, max_iterations, window_size, view, i, pending, stats,
                   calls, execs, script, outcome, runs, config, client>>

\* agent._parse_action(text): the text and the action found in it
ReactParse ==
    /\ prog = "ReActAgent._parse_action"
    /\ pc = "idle"
    /\ \E a \in SeqsUpTo(Segments("Action:"), MaxSegs) :
          /\ response' = [tools |-> <<>>, answer |-> a]
          /\ completion' = ChatCompletion(Flatten(a), _parse_action(Flatten(a)))
    /\ pc' = "parsed"
    /\ UNCHANGED <<prog, result, registry, registered, invoked>>
    /\ UNCHANGED LoopVars

InitClient ==
    /\ prog \in {"UnifiedClient", "ReActAgent._parse_action"}
    /\ backend \in IF prog = "UnifiedClient" THEN {"openai", "llamacpp"} ELSE {"llamacpp"}
    /\ config = Config(IF backend = "openai" THEN "sk-key" ELSE "", DefaultModelPath)
    /\ client = UnifiedClient(backend, config).value
    /\ pc = "idle"
    /\ result = None
    /\ registry = <<>>
    /\ NoUnit
    /\ LoopVarsAtRest

NextClient == ClientCreate \/ ReactParse

SpecClient == InitClient /\ [][NextClient]_vars

\* a step of a run in progress: each backend call and each tool call returns
RunStep ==
    \/ Agent0Think \/ Agent0Act \/ Agent0Exhaust
    \/ AwtThink \/ AwtAct \/ AwtExhaust
    \/ ReactThink \/ ReactAct \/ ReactExhaust
    \/ AdvThink \/ AdvAct \/ AdvExhaust

FairLoop == SpecLoop /\ WF_vars(RunStep)

-----------------------------------------------------------------------------
(* The two tool loops of module 1 on one sequence of completions:
   module_1_tool_agent.py and module_1_tool_agent_llamacpp.py *)

RemoteSystemPrompt == <<"You are a helpful AI assistant with access to various tools.">>

\* the last line of module_1_tool_agent.agent_with_tools
RemoteIncomplete == <<"Agent reached maximum iterations without completing the task.">>

\* the normalized completions a backend may return: text plus tool invocations
Completions ==
    {ClientCompletion(be, a, get_tool_schema(RegistryTools)) :
        be \in {"openai"}, a \in Answers("openai")}
    \cup {ClientCompletion(be, a, get_tool_schema(RegistryTools)) :
        be \in {"llamacpp"}, a \in Answers("llamacpp")}

\* a run of a loop: its conversation, the tools it has invoked, the iterations
\* it has begun, and how it ended ("returned" with a value, "raised" with the
\* message of the exception)
LoopRun(msgs) ==
    [messages |-> msgs, invoked |-> <<>>, iterations |-> 0, ended |-> "no", value |-> None]

\* a tool loop that takes the invocations last to first
RemoteCalls_reversed(tool_calls) ==
    [j \in 1..Len(tool_calls) |-> tool_calls[Len(tool_calls) + 1 - j]]

\* for tool_call in response_message.tool_calls
RemoteCalls(tool_calls) == tool_calls

\* module_1_tool_agent.agent_with_tools, the inner for loop: each tool call is
\* decoded, executed and answered with a "tool" message
RECURSIVE RemoteTools(_, _)
RemoteTools(tool_calls, run) ==
    IF tool_calls = <<>> THEN run
    ELSE LET tool_call == Head(tool_calls)
             tool_name == tool_call.name
             tool_args == json_loads(tool_call.arguments)
             tool_result == call_tool(RegistryTools, tool_name, tool_args.value)
         IN  IF tool_args.raised
             THEN [run EXCEPT !.ended = "raised", !.value = tool_args.value]
             ELSE RemoteTools(Tail(tool_calls),
                      [run EXCEPT
                          !.invoked = Append(@, [name |-> tool_name, args |-> tool_args.value]),
                          !.messages = Append(@, Message("tool", tool_result,
                                                 <<"tool_call_id", tool_call.id,
                                                   "name", tool_name>>))])

\* module_1_tool_agent.agent_with_tools, the for loop over range(n), fed the
\* completions of sc one per iteration
RECURSIVE RemoteLoop(_, _, _)
RemoteLoop(sc, n, run) ==
    IF ~InRange(run.iterations, n)
    THEN [run EXCEPT !.ended = "returned", !.value = RemoteIncomplete]
    ELSE LET response_message == sc[run.iterations + 1]
             begun == [run EXCEPT
                          !.iterations = @ + 1,
                          !.messages = Append(@, Message("assistant", response_message.content,
                                                 <<"tool_calls", response_message.tool_calls>>))]
         IN  IF response_message.tool_calls # <<>>
             THEN LET acted == RemoteTools(RemoteCalls(response_message.tool_calls), begun)
                  IN  IF acted.ended = "raised" THEN acted ELSE RemoteLoop(sc, n, acted)
             ELSE [begun EXCEPT !.ended = "returned", !.value = response_message.content]

\* module_1_tool_agent.agent_with_tools(prompt, max_iterations)
RemoteAgent(sc, n) ==
    RemoteLoop(sc, n, LoopRun(<<Message("system", RemoteSystemPrompt, <<>>),
                                Message("user", UserTask, <<>>)>>))

\* module_1_tool_agent_llamacpp.agent_with_tools, the inner for loop
RECURSIVE UnifiedTools(_, _)
UnifiedTools(tool_calls, run) ==
    IF tool_calls = <<>> THEN run
    ELSE LET tool_call == Head(tool_calls)
             tool_name == tool_call.name
             tool_args == json_loads(tool_call.arguments)
             tool_result == call_tool(RegistryTools, tool_name, tool_args.value)
         IN  IF tool_args.raised
             THEN [run EXCEPT !.ended = "raised", !.value = tool_args.value]
             ELSE UnifiedTools(NextCalls(tool_calls),
                      [run EXCEPT
                          !.invoked = Append(@, [name |-> tool_name, args |-> tool_args.value]),
                          !.messages = Append(@, AwtToolMessage(tool_name, tool_result))])

\* module_1_tool_agent_llamacpp.agent_with_tools, the for loop over range(n),
\* fed the completions of sc one per iteration
RECURSIVE UnifiedLoop(_, _, _)
UnifiedLoop(sc, n, run) ==
    IF ~InRange(run.iterations, n)
    THEN [run EXCEPT !.ended = "returned", !.value = AwtExhausted(<<>>)]
    ELSE LET response_message == sc[run.iterations + 1]
             begun == [run EXCEPT
                          !.iterations = @ + 1,
                          !.messages = Append(@, Message("assistant",
                                                 OrEmpty(response_message.content), <<>>))]
         IN  IF Len(response_message.tool_calls) > 0
             THEN LET acted == UnifiedTools(response_message.tool_calls, begun)
                  IN  IF acted.ended = "raised" THEN acted ELSE UnifiedLoop(sc, n, acted)
             ELSE [begun EXCEPT !.ended = "returned", !.value = response_message.content]

\* module_1_tool_agent_llamacpp.agent_with_tools(prompt, max_iterations)
UnifiedAgent(sc, n) ==
    UnifiedLoop(sc, n, LoopRun(<<Message("system", AwtSystemPrompt, <<>>),
                                 Message("user", UserTask, <<>>)>>))

\* both loops are run on the script at hand
PairRun ==
    /\ prog = "module_1.agent_with_tools"
    /\ pc = "idle"
    /\ result' = [remote |-> RemoteAgent(script, max_iterations),
                  unified |-> UnifiedAgent(script, max_iterations)]
    /\ pc' = "compared"
    /\ UNCHANGED <<prog, backend, max_iterations, window_size, messages, view, i,
                   pending, stats, calls, execs, script, sent, outcome, runs>>
    /\ UNCHANGED Setup

\* a cap, and one completion for each iteration the cap allows
InitPair ==
    /\ prog = "module_1.agent_with_tools"
    /\ pc = "idle"
    /\ max_iterations \in 0..MaxScript
    /\ script \in [1..max_iterations -> Completions]
    /\ backend = "openai"
    /\ config = Config("sk-key", DefaultModelPath)
    /\ client = "openai.OpenAI"
    /\ registry = RegistryTools
    /\ NoUnit
    /\ window_size = 0
    /\ messages = <<>>
    /\ view = <<>>
    /\ i = 0
    /\ pending = <<>>
    /\ result = None
    /\ stats = NoStats
    /\ calls = 0
    /\ execs = 0
    /\ sent = <<>>
    /\ outcome = "none"
    /\ runs = 0

NextPair == PairRun

SpecPair == InitPair /\ [][NextPair]_vars

-----------------------------------------------------------------------------
(* Properties *)

\* the fixed string the running program returns when its loop is exhausted
IncompleteSentinel ==
    CASE prog = "agent" -> Agent0Incomplete
      [] prog = "agent_with_tools" -> AwtIncomplete
      [] prog = "ReActAgent" -> ReactLimit
      [] OTHER -> AdvIncomplete

\* the number of tool invocations in the first n completions of a script
RECURSIVE Invocations(_, _)
Invocations(sc, n) ==
    IF n = 0 THEN 0 ELSE Len(sc[n].tool_calls) + Invocations(sc, n - 1)

\* the materialized view of the Memory at hand
Materialize(ms, N) ==
    IF prog = "AdvancedAgent" THEN get_window(ms, N) ELSE get_messages(ms, N)

LeadingSystem(ms) == ms # <<>> /\ ms[1].role = "system"

\* C1: whatever the cap and whatever the backend answers, a run makes at most
\* max_iterations backend calls, and a run in progress ends (it returns or
\* raises), given that each backend call and each tool call returns.
C1_BoundedRun ==
    /\ [](calls <= max_iterations)
    /\ (Running ~> pc \in {"done", "raised"})

\* a run whose every completion requested tool calls, ended by the cap
C1_Witness ==
    /\ pc = "done"
    /\ outcome = "exhausted"
    /\ max_iterations = 2
    /\ calls = 2
    /\ \A j \in 1..Len(script) : script[j].tool_calls # <<>>

\* C2: a run that ends because the loop made max_iterations iterations returns
\* the fixed incomplete sentinel, which is no content of the conversation: not
\* the last completion's text, not a tool result.
C2_ExhaustedReturnsSentinel ==
    (pc = "done" /\ outcome = "exhausted") =>
        /\ calls = max_iterations
        /\ result = IncompleteSentinel
        /\ \A j \in 1..Len(messages) : result # messages[j].content

\* a run ended by the cap after completions with text and tool results
C2_Witness ==
    /\ prog = "agent_with_tools"
    /\ pc = "done"
    /\ outcome = "exhausted"
    /\ max_iterations = 2
    /\ execs > 0
    /\ script[Len(script)].content # <<>>
    /\ result = AwtIncomplete

C4_ViolationDistinct ==
    (prog = "ReActAgent" /\ pc = "done" /\ outcome = "violation") =>
        result # ReactExhausted

\* C5: for every window size N >= 0 a materialized view has at most N + 1
\* messages, and a system message at position 0 of the history is first in it.
C5_ViewBound ==
    pc = "viewed" =>
        /\ Len(view) <= window_size + 1
        /\ LeadingSystem(messages) => (view # <<>> /\ view[1] = messages[1])

\* C6: with N >= 1, a leading system message and more than N later messages,
\* the view is the system message followed by the last N messages, in order.
C6_SystemPlusLastN ==
    (pc = "viewed" /\ window_size >= 1 /\ LeadingSystem(messages)
       /\ Len(messages) - 1 > window_size) =>
        /\ Len(view) = window_size + 1
        /\ view[1] = messages[1]
        /\ \A j \in 1..window_size :
              view[1 + j] = messages[Len(messages) - window_size + j]

\* the scenario: N = 3, a system prompt and four later messages
C6_Witness ==
    /\ prog = "Memory"
    /\ pc = "viewed"
    /\ window_size = 3
    /\ LeadingSystem(messages)
    /\ Len(messages) = 5
    /\ Len(view) = 4
    /\ view[2] # view[3]

\* C7: with N = 0 the view is the system message alone, or empty when there is
\* none; the view of an empty history is empty.
C7_ZeroWindow ==
    pc = "viewed" =>
        /\ messages = <<>> => view = <<>>
        /\ window_size = 0 =>
              view = IF LeadingSystem(messages) THEN <<messages[1]>> ELSE <<>>

\* C8: right after clear / reset the materialized view is the system message
\* alone if the history began with one, and empty otherwise.
C8_ResetView ==
    [][pc' = "cleared" =>
          Materialize(messages', window_size') =
              IF LeadingSystem(messages) THEN <<messages[1]>> ELSE <<>>]_vars

\* a Memory with a system prompt, cleared
C8_Witness ==
    /\ prog = "Memory"
    /\ pc = "cleared"
    /\ messages = <<Message("system", SystemPrompt, <<>>)>>
    /\ get_messages(messages, window_size) = messages

\* C9: a backend call leaves every message of the caller's conversation as it
\* was: same role, same content.
C9_MessagesImmutable ==
    [][calls' = calls + 1 =>
          \A j \in 1..Len(messages) :
              /\ j <= Len(messages')
              /\ messages'[j].role = messages[j].role
              /\ messages'[j].content = messages[j].content]_vars

\* C10: the history holds at most one system message, and only in first place.
C10_SingleLeadingSystem ==
    prog = "Memory" =>
        \A j \in 1..Len(messages) : messages[j].role = "system" => j = 1

\* part occurs in text, as a run of consecutive symbols
Contains(text, part) ==
    \E k \in 1..(Len(text) - Len(part) + 1) : SubSeq(text, k, k + Len(part) - 1) = part

\* the functions handed over under a name, and the last of them
HandedOver(name) == {j \in 1..Len(registered) : registered[j].name = name}
LastRegistered(name) ==
    registered[CHOOSE j \in HandedOver(name) : \A h \in HandedOver(name) : h <= j]

\* the first symbol of each registry's error strings
ErrorHeads == {"Error: Tool '", "Error calling tool ", "Error: ", "Error executing "}

\* C11: invoke returns a string whatever the name, the arguments and the
\* capability: for a name that is not registered an error string that names it,
\* and for a capability that raises an error string that contains the
\* exception's message.
C11_InvokeReturnsString ==
    pc = "called" =>
        /\ IsStr(result)
        /\ HandedOver(invoked.name) = {} =>
              /\ Head(result) = "Error: Tool '"
              /\ Contains(result, invoked.name)
        /\ HandedOver(invoked.name) # {} =>
              LET r == Apply(LastRegistered(invoked.name), invoked.args)
              IN  /\ r.raised => /\ Head(result) \in ErrorHeads
                                 /\ Contains(result, r.value)
                  /\ ~r.raised => result = str(r.value)

\* a registered capability that raises, invoked through call_tool
C11_Witness ==
    /\ prog = "module_1.ToolRegistry"
    /\ pc = "called"
    /\ invoked.name = <<"fails">>
    /\ HandedOver(<<"fails">>) # {}
    /\ result = <<"Error calling tool ", "fails", ": ", "boom">>

\* C20: register never fails, also for a name that is taken: the registry
\* holds one capability per name handed over, the last one handed over under
\* that name, and invoke calls that one.
C20_RegisterOverwrites ==
    /\ Len(registry) = Cardinality(Registered(registry))
    /\ Registered(registry) = {registered[j].name : j \in 1..Len(registered)}
    /\ \A name \in Registered(registry) : Lookup(registry, name) = LastRegistered(name)
    /\ (pc = "called" /\ HandedOver(invoked.name) # {}) =>
          LET r == Apply(LastRegistered(invoked.name), invoked.args)
          IN  ~r.raised => result = str(r.value)

\* calculate registered twice, the caller's calculate last, then invoked
C20_Witness ==
    /\ prog = "advanced_example.ToolRegistry"
    /\ pc = "called"
    /\ registered = <<Func(<<"calculate">>, "module_1"), Func(<<"calculate">>, "caller")>>
    /\ Len(registry) = 1
    /\ invoked.name = <<"calculate">>
    /\ result = <<"42">>

\* C12: while tool calls of a completion are pending, each step of the run
\* handles one of them: it appends its result message (the error string on
\* failure) to the history and leaves the run in progress, on its way to the
\* next tool call or to the next iteration.
C12_ToolFailureRecovered ==
    [][(prog \in {"agent_with_tools", "AdvancedAgent", "ReActAgent"} /\ pc = "tools") =>
          /\ Len(messages') = Len(messages) + 1
          /\ messages'[Len(messages')].role \in {"user", "tool"}
          /\ execs' = execs + 1
          /\ pc' \in {"tools", "loop"}]_vars

\* C13: a backend call that fails ends the run with the exception: the run
\* neither returns a value nor goes on, it makes no later backend call and no
\* tool call.
C13_BackendFailureFatal ==
    /\ [](outcome = "error" => pc \in {"raised", "reset"})
    /\ [][(outcome = "error" /\ runs' = runs) =>
             /\ calls' = calls
             /\ execs' = execs
             /\ result' = result
             /\ pc' \in {"raised", "reset"}]_vars

\* the first backend call of a run fails, with an iteration left
C13_Witness ==
    /\ pc = "raised"
    /\ outcome = "error"
    /\ max_iterations = 2
    /\ i = 1
    /\ calls = 1
    /\ execs = 0

\* the configurations the claim names: openai without a key, a backend that is
\* neither openai nor llamacpp, llamacpp without its model file
BadConfig ==
    \/ backend = "openai" /\ config.OPENAI_API_KEY = ""
    \/ backend \notin {"openai", "llamacpp"}
    \/ backend = "llamacpp" /\ config.LLAMA_MODEL_PATH \notin Files

C19_StatsPerRun ==
    (prog = "AdvancedAgent" /\ pc \in {"loop", "tools", "done"}) =>
        /\ stats.total_iterations = i
        /\ stats.tool_calls = execs

\* the pieces of a text that carry the prefix of the calling convention
Marked(segs) == SelectSeq(segs, LAMBDA sg : sg.kind # "text")

\* one completion call of the local client, with tools, has returned
LocalWithTools ==
    /\ prog = "UnifiedClient"
    /\ pc = "completed"
    /\ backend = "llamacpp"
    /\ response.tools # <<>>

\* C15: when the k TOOL_CALL occurrences of a local completion text are all in
\* the convention, the completion carries k invocations, in the order of the
\* occurrences, with pairwise distinct ids, each with the name and the
\* arguments written in its occurrence, and none of the occurrences is left in
\* the returned text.
C15_ExtractsEveryCall ==
    (LocalWithTools /\ \A j \in 1..Len(Marked(response.answer)) :
                          Marked(response.answer)[j].kind = "call") =>
        LET occ == Marked(response.answer)
            tc == completion.tool_calls
        IN  /\ Len(tc) = Len(occ)
            /\ \A j \in 1..Len(occ) :
                  /\ tc[j].name = occ[j].name
                  /\ json_loads(tc[j].arguments).value = occ[j].args
                  /\ ~Contains(completion.content, occ[j].text)
            /\ \A j, h \in 1..Len(tc) : tc[j].id = tc[h].id => j = h
            /\ ~Contains(completion.content, <<"TOOL_CALL:">>)

\* the index of the ")" that closes a "(" opened before index q, depth more
\* "(" being open since; 0 if there is none
RECURSIVE CloseOf(_, _, _)
CloseOf(text, q, depth) ==
    IF q > Len(text) THEN 0
    ELSE IF text[q] = ")"
         THEN IF depth = 0 THEN q ELSE CloseOf(text, q + 1, depth - 1)
         ELSE IF text[q] = "(" THEN CloseOf(text, q + 1, depth + 1)
              ELSE CloseOf(text, q + 1, depth)

\* the opening parenthesis of the first TOOL_CALL of text has no matching
\* closing parenthesis
Unbalanced(text) ==
    LET p == IndexOf(text, "TOOL_CALL:", 1)
        q == IF p # 0 THEN IndexOf(text, "(", p) ELSE 0
    IN  q # 0 /\ CloseOf(text, q + 1, 0) = 0

\* C16: when the only TOOL_CALL occurrence of a local completion text is a call
\* whose opening parenthesis is never closed, the completion carries no
\* invocation and its text is the model's text, unchanged.
C16_UnbalancedNotExtracted ==
    (LocalWithTools /\ Len(Marked(response.answer)) = 1
       /\ Marked(response.answer)[1].kind = "open"
       /\ Unbalanced(Flatten(response.answer))) =>
        /\ completion.tool_calls = <<>>
        /\ completion.content = Flatten(response.answer)

\* C17: a tool name taken from a text, by the local client or by
\* _parse_action, starts with a letter or an underscore, not with a digit.
C17_NameIsIdentifier ==
    ((prog = "UnifiedClient" /\ pc = "completed" /\ backend = "llamacpp")
       \/ (prog = "ReActAgent._parse_action" /\ pc = "parsed")) =>
        \A j \in 1..Len(completion.tool_calls) :
            completion.tool_calls[j].name[1] \notin Digits

\* the backend's answer carries no tool call
NoToolCall ==
    IF backend = "openai" THEN response.answer.tool_calls = <<>>
    ELSE Marked(response.answer) = <<>>

\* C18: for both backends the text of a completion is a string, with or
\* without invocations, and the completion carries no invocation when the
\* backend's answer carries no tool call.
C18_TextAlwaysString ==
    (prog = "UnifiedClient" /\ pc = "completed") =>
        /\ IsStr(completion.content)
        /\ NoToolCall => completion.tool_calls = <<>>

\* the remote API answered with tool calls and no content
C18_Witness ==
    /\ prog = "UnifiedClient"
    /\ pc = "completed"
    /\ backend = "openai"
    /\ response.answer.content = None
    /\ response.answer.tool_calls # <<>>
    /\ completion.content = <<>>
    /\ Len(completion.tool_calls) = 1


\* C21: the schema holds exactly one descriptor per registered tool name; in a
\* descriptor every declared parameter of the tool's function is a property of
\* type string, and a parameter is in the required list exactly when it has
\* no default value
C21_SchemaDescriptors ==
    pc = "schema" =>
        LET names == {registered[j].name : j \in 1..Len(registered)}
        IN  /\ Len(result) = Cardinality(names)
            /\ {result[j].name : j \in 1..Len(result)} = names
            /\ \A j \in 1..Len(result) :
                  LET sig == Signature(LastRegistered(result[j].name))
                      props == result[j].properties
                      req == {result[j].required[h] : h \in 1..Len(result[j].required)}
                  IN  /\ Len(props) = Len(sig)
                      /\ \A h \in 1..Len(sig) :
                            /\ props[h].name = sig[h].name
                            /\ props[h].type = "string"
                            /\ (sig[h].name \in req) <=> ~sig[h].has_default
                      /\ req \subseteq {sig[h].name : h \in 1..Len(sig)}

\* a schema of two tools, one of them with a required and a defaulted parameter
C21_Witness ==
    /\ pc = "schema"
    /\ Len(result) = 2
    /\ Len(registered) = 3
    /\ \E j \in 1..Len(result) :
          /\ Len(result[j].properties) = 2
          /\ result[j].required = <<<<"expression">>>>


\* C22: materializing the view leaves the stored history and the window size as
\* they were, and a change of the returned list (append, insert, remove)
\* leaves the stored history as it was
C22_MaterializeFrame ==
    [][pc' \in {"viewed", "changed"} =>
          (messages' = messages /\ window_size' = window_size)]_vars

\* the returned list, equal to the whole history when handed out, changed by
\* its holder
C22_Witness ==
    /\ pc = "changed"
    /\ Len(messages) >= 2
    /\ get_messages(messages, window_size) = messages
    /\ view # messages


\* the tool loops of agent_with_tools and AdvancedAgent.run
ToolLoop == prog \in {"agent_with_tools", "AdvancedAgent"}

\* m is the result message the loop at hand appends for tool_call
ResultFor(m, tool_call) ==
    IF prog = "AdvancedAgent"
    THEN m.role = "tool" /\ m.extra = <<"tool_call_id", tool_call.id, "name", tool_call.name>>
    ELSE /\ m.role = "user"
         /\ Len(m.content) > Len(tool_call.name)
         /\ SubSeq(m.content, 1, 1 + Len(tool_call.name)) = <<"Tool ">> \o tool_call.name

\* C23: an iteration extends the history by exactly the assistant message of
\* its completion, appended with or without invocations, and then by one
\* result message per invocation in the returned order, each appended by the
\* step that executes the invocation; an iteration ends with every invocation
\* answered, and no other step of a run touches the history
C23_IterationAppends ==
    [][ToolLoop =>
          /\ (calls' = calls + 1 /\ pc' # "raised") =>
                /\ Len(messages') = Len(messages) + 1
                /\ SubSeq(messages', 1, Len(messages)) = messages
                /\ messages'[Len(messages')].role = "assistant"
                /\ messages'[Len(messages')].content = OrEmpty(script'[Len(script')].content)
                /\ pending' = script'[Len(script')].tool_calls
          /\ execs' = execs + 1 =>
                /\ Len(messages') = Len(messages) + 1
                /\ SubSeq(messages', 1, Len(messages)) = messages
                /\ ResultFor(messages'[Len(messages')], Head(pending))
                /\ pending' = Tail(pending)
          /\ (pc = "tools" /\ pc' # "tools") => pending' = <<>>
          /\ (Running /\ calls' = calls /\ execs' = execs) => messages' = messages]_vars


\* C24: a run is sequential. When a backend call is made, every invocation of
\* the run's earlier completions has been executed and none is pending; a tool
\* step executes one invocation, the next of the last completion in the
\* returned order, and appends its result; no step both calls the backend and
\* executes a tool
C24_StrictlySequential ==
    [][(ToolLoop /\ Running) =>
          /\ calls' = calls + 1 =>
                /\ pending = <<>>
                /\ execs = Invocations(script, Len(script))
                /\ execs' = execs
          /\ execs' # execs =>
                /\ execs' = execs + 1
                /\ calls' = calls
                /\ script # <<>>
                /\ LET last == script[Len(script)].tool_calls
                       k == execs - Invocations(script, Len(script) - 1) + 1
                   IN  /\ k \in 1..Len(last)
                       /\ Head(pending) = last[k]
                       /\ Len(messages') = Len(messages) + 1
                       /\ ResultFor(messages'[Len(messages')], last[k])]_vars

\* a second backend call after a completion with two invocations, both executed
C24_Witness ==
    /\ ToolLoop
    /\ calls = 2
    /\ Len(script[1].tool_calls) = 2
    /\ execs = 2
    /\ messages[Len(messages) - 1].role \in {"user", "tool"}
    /\ messages[Len(messages) - 2].role \in {"user", "tool"}


\* the text of the completion a backend call of the step has returned
Returned == script'[Len(script')].content

\* the text after the first final-answer marker of a text, trimmed
AfterMarker(text) ==
    strip(SubSeq(text, IndexOf(text, FinalMarker, 1) + 1, Len(text)))

\* C25: in ReActAgent.run a completion whose text contains the Final Answer:
\* marker ends the run as DONE in that iteration with the text after the
\* marker as the result, and no action of that completion is executed
C25_FinalAnswerEndsRun ==
    [][(prog = "ReActAgent" /\ calls' = calls + 1 /\ pc' # "raised"
          /\ IsStr(Returned) /\ IndexOf(Returned, FinalMarker, 1) # 0) =>
            /\ pc' = "done"
            /\ outcome' = "final"
            /\ result' = AfterMarker(Returned)
            /\ pending' = <<>>
            /\ execs' = execs]_vars


\* C26: in ReActAgent.run a completion with neither a parseable action nor a
\* final-answer marker ends the run in its iteration, whatever the cap leaves:
\* the run returns in that step, executes nothing, and a returned run makes
\* no backend call and no tool call
C26_ViolationEndsRun ==
    [][prog = "ReActAgent" =>
          /\ (calls' = calls + 1 /\ pc' # "raised"
                /\ IndexOf(Returned, FinalMarker, 1) = 0
                /\ script'[Len(script')].tool_calls = <<>>) =>
                    /\ pc' = "done"
                    /\ pending' = <<>>
                    /\ execs' = execs
          /\ pc = "done" => (calls' = calls /\ execs' = execs /\ pc' = "done")]_vars

\* a run stopped by such a completion in its first iteration, under a cap of 2
C26_Witness ==
    /\ prog = "ReActAgent"
    /\ pc = "done"
    /\ outcome = "violation"
    /\ max_iterations = 2
    /\ i = 1
    /\ calls = 1
    /\ execs = 0
    /\ script[1].content = <<"I do not know">>


\* the symbols of text from index p on that lie in none of the matches
RECURSIVE OutsideOf(_, _, _)
OutsideOf(text, matches, p) ==
    IF p > Len(text) THEN <<>>
    ELSE (IF \E j \in 1..Len(matches) : matches[j].start <= p /\ p <= matches[j].end
          THEN <<>> ELSE <<text[p]>>)
         \o OutsideOf(text, matches, p + 1)

\* C27: the text of a local completion with tools is the model's text without
\* the text of the extracted invocations, trimmed (as it is, or trimmed, when
\* nothing is extracted): nothing outside an extracted invocation is removed,
\* and as many segments are removed as invocations are extracted
C27_OnlyInvocationsRemoved ==
    LocalWithTools =>
        LET raw == Flatten(response.answer)
            matches == FindCalls(raw, "TOOL_CALL:", 1)
        IN  /\ Len(completion.tool_calls) = Len(matches)
            /\ IF matches = <<>>
               THEN completion.content \in {raw, strip(raw)}
               ELSE /\ completion.content = strip(OutsideOf(raw, matches, 1))
                    /\ RemovedSegments(raw, 1) = Len(matches)


\* the system prompt of the program at hand
SystemPromptOf ==
    CASE prog = "agent" -> Agent0SystemPrompt
      [] prog = "agent_with_tools" -> AwtSystemPrompt
      [] prog = "ReActAgent" -> ReactSystemPrompt
      [] OTHER -> AdvSystemPrompt

\* a conversation that begins with the system prompt and ends with the task of
\* the run
Seeded(msgs, run) ==
    /\ Len(msgs) >= 2
    /\ msgs[1] = Message("system", SystemPromptOf, <<>>)
    /\ msgs[Len(msgs)] = Message("user", Task(run), <<>>)

\* C28: a run starts RUNNING, at iteration 0, with a seeded conversation, and
\* the first backend call of the run receives a conversation whose first
\* message is the system prompt and whose last message is the task of the run
C28_RunSeeded ==
    [][/\ runs' = runs + 1 =>
             (pc' = "loop" /\ i' = 0 /\ calls' = 0 /\ Seeded(messages', runs'))
       /\ (calls = 0 /\ calls' = 1) => Seeded(sent', runs)]_vars

\* the first backend call of the second run of an agent with a window of one
C28_Witness ==
    /\ prog = "AdvancedAgent"
    /\ runs = 2
    /\ calls = 1
    /\ window_size = 1
    /\ Len(sent) = 2
    /\ sent[2].content = Task(2)


\* ms is a prefix of ns
IsPrefix(ms, ns) == Len(ms) <= Len(ns) /\ SubSeq(ns, 1, Len(ms)) = ms

\* the step is a reset / clear, or opens the new conversation of a run that
\* keeps none
Resets ==
    \/ pc' \in {"reset", "cleared"}
    \/ prog # "AdvancedAgent" /\ runs' = runs + 1

\* C29: the history is append-only between resets: across every add and every
\* loop step, backend calls of both variants included, the history before the
\* step is a prefix of the history after it
C29_AppendOnly ==
    [][~Resets => IsPrefix(messages, messages')]_vars


\* C30: fed the same sequence of normalized completions, the loop of
\* module_1_tool_agent and the loop of module_1_tool_agent_llamacpp invoke the
\* same tools with the same arguments in the same order, begin the same number
\* of iterations, and end alike with the same final string
C30_LoopsEquivalent ==
    (prog = "module_1.agent_with_tools" /\ pc = "compared") =>
        /\ result.remote.invoked = result.unified.invoked
        /\ result.remote.iterations = result.unified.iterations
        /\ result.remote.ended = result.unified.ended
        /\ result.remote.value = result.unified.value

\* a script of three completions: two invocations, one invocation, a text
C30_Witness ==
    /\ prog = "module_1.agent_with_tools"
    /\ pc = "compared"
    /\ max_iterations = 3
    /\ Len(script[1].tool_calls) = 2
    /\ Len(result.remote.invoked) = 3
    /\ result.remote.invoked[1].name # result.remote.invoked[2].name
    /\ result.remote.iterations = 3
    /\ result.unified.ended = "returned"
    /\ result.unified.value = <<"4">>
    /\ result.remote.messages # result.unified.messages


\* the ids of the tool calls an assistant message of the AdvancedAgent carries
CallIds(m) ==
    IF m.role = "assistant" /\ Len(m.extra) = 2
    THEN {m.extra[2][k].id : k \in 1..Len(m.extra[2])}
    ELSE {}

\* the message at index j of msgs is a tool result that follows, with only
\* tool results between, an assistant message of msgs that carries its call
Paired(msgs, j) ==
    \E h \in 1..(j - 1) :
        /\ msgs[j].extra[2] \in CallIds(msgs[h])
        /\ \A k \in (h + 1)..(j - 1) : msgs[k].role = "tool"

\* C31: in every view AdvancedAgent.run sends to the backend, each tool
\* message comes after the assistant message of that view whose tool call
\* produced it
C31_ToolResultsKeepTheirCall ==
    prog = "AdvancedAgent" =>
        \A j \in 1..Len(sent) : sent[j].role = "tool" => Paired(sent, j)


\* the user task message of the run at hand is in msgs
TaskIn(msgs) ==
    \E j \in 1..Len(msgs) : msgs[j] = Message("user", Task(runs), <<>>)

\* the number of messages of ms after its last user message
SinceTask(ms) ==
    LET users == {j \in 1..Len(ms) : ms[j].role = "user"}
    IN  Len(ms) - (CHOOSE j \in users : \A h \in users : h <= j)

\* C32 as stated: with N >= 1, every view AdvancedAgent.run sends to the
\* backend contains the user task message of the run
C32_TaskAlwaysInView ==
    (prog = "AdvancedAgent" /\ window_size >= 1 /\ calls >= 1) => TaskIn(sent)

\* C32, amended: with N >= 1, a view sent to the backend contains the user task
\* message of the run exactly when fewer than N messages were appended to the
\* history after the task; the first view of a run always contains it
C32_TaskInViewWhileRecent ==
    [][(prog = "AdvancedAgent" /\ window_size >= 1 /\ calls' = calls + 1) =>
          /\ TaskIn(sent') <=> SinceTask(messages) < window_size
          /\ calls = 0 => TaskIn(sent')]_vars

\* a second view of a run, of window 2, after two tool results: the task is out
C32_Witness ==
    /\ prog = "AdvancedAgent"
    /\ window_size = 2
    /\ calls = 2
    /\ Len(sent) = 3
    /\ sent[2].role = "tool"
    /\ sent[3].role = "tool"
    /\ ~TaskIn(sent)


\* the loops that act on what a completion carries and end with a sentinel
ActingLoop == prog \in {"agent", "agent_with_tools", "AdvancedAgent"}

\* m is the message the loop at hand appends for the invocation inv
AnswerTo(m, inv) ==
    IF prog = "agent"
    THEN m.role = "user" /\ m.content # <<>> /\ m.content[1] = "Observation: "
    ELSE ResultFor(m, inv)

\* msgs ends with one result per invocation of invs, in their order
Answered(msgs, invs) ==
    /\ Len(msgs) > Len(invs)
    /\ \A k \in 1..Len(invs) : AnswerTo(msgs[Len(msgs) - Len(invs) + k], invs[k])

\* the last permitted iteration of the run at hand is under way or over
LastIteration == ActingLoop /\ Running /\ i = max_iterations

\* C33: on the last permitted iteration every step taken for a completion that
\* carries invocations executes the next invocation and appends its result,
\* without a backend call; the run then ends with the incomplete sentinel, the
\* history ending with one result per invocation of that completion
C33_LastIterationStillActs ==
    [][LastIteration =>
          /\ pc = "tools" =>
                /\ execs' = execs + 1
                /\ calls' = calls
                /\ Len(messages') = Len(messages) + 1
                /\ AnswerTo(messages'[Len(messages')], Head(pending))
          /\ pc = "loop" =>
                /\ outcome' = "exhausted"
                /\ pc' = "done"
                /\ result' = IncompleteSentinel
                /\ calls' = calls
                /\ messages' = messages
                /\ script # <<>> =>
                      /\ script[Len(script)].tool_calls # <<>>
                      /\ Answered(messages, script[Len(script)].tool_calls)]_vars


\* the messages of ms other than a leading system message
Turns(ms) == IF ms # <<>> /\ ms[1].role = "system" THEN Tail(ms) ELSE ms

\* ms strictly alternates user, assistant, starting with user
Alternates(ms) ==
    \A j \in 1..Len(ms) : ms[j].role = (IF j % 2 = 1 THEN "user" ELSE "assistant")

\* C34: a chat call whose backend call fails leaves the stored history as it
\* was before the call, so the messages after the system message strictly
\* alternate user, assistant after any sequence of chat calls
C34_FailedChatLeavesHistory ==
    [][prog = "StatefulAgent" =>
          /\ pc' = "raised" => messages' = messages
          /\ Alternates(Turns(messages'))]_vars


\* the number of tool messages in ms
ToolMessages(ms) == Cardinality({j \in 1..Len(ms) : ms[j].role = "tool"})

\* C35: in AdvancedAgent the tool_calls statistic equals the number of tool
\* messages in the full stored history, whatever runs and resets were made and
\* however the runs ended
C35_ToolCallsCountsToolMessages ==
    prog = "AdvancedAgent" => stats.tool_calls = ToolMessages(messages)

\* a run that executed two tools and was then aborted by the backend
C35_Witness ==
    /\ prog = "AdvancedAgent"
    /\ pc = "raised"
    /\ outcome = "error"
    /\ stats.tool_calls = 2
    /\ ToolMessages(messages) = 2


\* the loops that answer an action with an observation in a user message
ObservingLoop == prog \in {"agent", "ReActAgent"}

\* m is an observation message
Observation(m) == m.role = "user" /\ m.content # <<>> /\ m.content[1] = "Observation: "

\* C36: in the module-0 agent and in ReActAgent.run the conversation is the
\* system message followed by messages that strictly alternate user and
\* assistant, starting with the user task; a step that executes an action
\* appends its observation as a user message right after the assistant
\* message that asked for it
C36_ConversationAlternates ==
    [][(ObservingLoop /\ messages' # <<>>) =>
          /\ Len(messages') >= 2
          /\ messages'[1].role = "system"
          /\ messages'[2] = Message("user", UserTask, <<>>)
          /\ Alternates(Tail(messages'))
          /\ execs' = execs + 1 =>
                /\ messages[Len(messages)].role = "assistant"
                /\ Len(messages') = Len(messages) + 1
                /\ SubSeq(messages', 1, Len(messages)) = messages
                /\ Observation(messages'[Len(messages')])]_vars

\* a ReAct run whose two actions were each answered by an observation
C36_Witness ==
    /\ prog = "ReActAgent"
    /\ Len(messages) = 6
    /\ messages[3].role = "assistant"
    /\ Observation(messages[4])
    /\ messages[5].role = "assistant"
    /\ Observation(messages[6])


\* one completion call of the local client, without tools, has returned
LocalWithoutTools ==
    /\ prog = "UnifiedClient"
    /\ pc = "completed"
    /\ backend = "llamacpp"
    /\ response.tools = <<>>

\* C37: a completion call of the local client without tool descriptors returns
\* the model's text as it is and no invocation, whatever the text holds, and
\* the conversation the caller passed is the same after the call
C37_NoToolsNoExtraction ==
    LocalWithoutTools =>
        /\ completion.content = Flatten(response.answer)
        /\ completion.tool_calls = <<>>
        /\ messages = sent

\* a call without tools whose text holds a tool call in the convention, on a
\* conversation with a system message
C37_Witness ==
    /\ LocalWithoutTools
    /\ \E j \in 1..Len(response.answer) : response.answer[j].kind = "call"
    /\ _extract_tool_calls(Flatten(response.answer)) # <<>>
    /\ completion.tool_calls = <<>>
    /\ sent[1].role = "system"


\* the number of occurrences of the symbol sym in text
Occurrences(text, sym) == Cardinality({j \in 1..Len(text) : text[j] = sym})

\* the action a completion text opens with: for ReActAgent the name written
\* after the first Action: marker, for the module-0 agent the first symbol of
\* the first python block
Opens(text, action) ==
    IF prog = "ReActAgent"
    THEN action.name = <<text[IndexOf(text, "Action:", 1) + 2]>>
    ELSE action[1] = text[IndexOf(text, CodeOpen, 1) + 1]

\* the observation the loop at hand stores for an action
ObservationOf(action) ==
    IF prog = "ReActAgent"
    THEN _execute_tool(registry, action.name, action.args)
    ELSE execute_python(action)

\* C38: ReActAgent.run and the module-0 agent execute at most one action per
\* iteration: a completion leaves at most one action to execute, the first of
\* its text; executing it stores one observation, that of this action, and
\* the next step is a backend call or the end of the run
C38_OneActionPerIteration ==
    [][ObservingLoop =>
          /\ execs' <= calls'
          /\ Len(pending') <= 1
          /\ (calls' = calls + 1 /\ pending' # <<>>) =>
                Opens(script'[Len(script')].content, pending'[1])
          /\ execs' = execs + 1 =>
                /\ pending' = <<>>
                /\ pc' = "loop"
                /\ messages' = Append(messages,
                                      Message("user", <<"Observation: ">>
                                                      \o ObservationOf(pending[1]), <<>>))]_vars

\* a ReAct completion with two actions: the first was executed, and answered
C38_Witness ==
    /\ prog = "ReActAgent"
    /\ pc = "loop"
    /\ execs = 1
    /\ calls = 1
    /\ Occurrences(script[1].content, "Action:") = 2
    /\ Len(messages) = 4
    /\ messages[4].content = <<"Observation: ", "4">>

=============================================================================
